---- MODULE Spec2Model ----
(***************************************************************************)
(* cdot-RMM: the telemetry -> alert -> workflow pipeline.                  *)
(*                                                                         *)
(*   automation-service  workflows, workflow_actions, workflow_logs;       *)
(*                       POST /api/workflows, /api/events,                 *)
(*                       /api/workflows/test; executeWorkflow, doAction    *)
(*   ingestion-service   POST /api/ingest, evaluateRules, sendAlert        *)
(*   alert-service       POST /api/alert-rules, POST /api/alerts           *)
(*   patch service       GET /api/patches/:deviceId,                       *)
(*                       POST /api/patches/approve, POST /api/patch-status *)
(*   agent               main's patch ticker, checkForPatches,             *)
(*                       reportPatchStatus                                 *)
(*                                                                         *)
(* Every handler is an async function: it runs atomically up to each       *)
(* await, and the awaited query or HTTP call is one step that succeeds or  *)
(* throws.  Handlers of different requests interleave at these steps.      *)
(***************************************************************************)
EXTENDS Integers, Sequences, FiniteSets, TLC

VARIABLES
    workflows,          \* table workflows: set of rows
    workflow_actions,   \* table workflow_actions: set of rows
    workflow_logs,      \* table workflow_logs: rows in insertion order
    cw,                 \* POST /api/workflows handlers, one per creator
    sb,                 \* POST /api/events handler
    ts,                 \* POST /api/workflows/test handler
    requested,          \* history: requested[id] = action list workflow id was created with
    complete,           \* history: ids of the workflows whose actions are all inserted
    prevTest,           \* history: the test call that returned before the last one
    alert_rules,        \* table alert_rules: set of rows
    metrics,            \* table metrics: rows in insertion order
    alerts,             \* table alerts: rows in insertion order
    configured,         \* the notification channels whose webhook URL is set
    ig,                 \* POST /api/ingest handler
    evals,              \* the evaluateRules tasks, in the order they were started
    ra,                 \* POST /api/alerts handler
    rc,                 \* POST /api/alert-rules: the last answer
    patch_assignments,  \* table patch_assignments of the agent's device, by patch id
    now,                \* the clock of the database: NOW()
    ap,                 \* POST /api/patches/approve: the last answer
    deviceID,           \* the agent's variable deviceID
    checks,             \* the patch ticks of the agent and their checkForPatches goroutines
    installs            \* history: the installations the agent has carried out

automationStore == <<workflows, workflow_actions, workflow_logs>>
automationVars == <<workflows, workflow_actions, workflow_logs, cw, sb, ts,
                    requested, complete, prevTest>>

alertVars == <<alert_rules, metrics, alerts, configured, ig, evals, ra, rc>>

patchVars == <<patch_assignments, now, ap, deviceID, checks, installs>>

vars == <<automationVars, alertVars, patchVars>>

-----------------------------------------------------------------------------
(* Bounds of the model *)

MaxWorkflows == 2
MaxLogs == 2
MaxRules == 2
MaxSamples == 1
MaxAlerts == 2
MaxEvaluated == 2
MaxChecks == 2
MaxApprovals == 2
MaxClock == 1

(* A missing (undefined or null) string field of a JSON body *)
NULL == "<null>"

Range(s) == {s[i] : i \in DOMAIN s}

(* JavaScript's !s for a string field *)
Falsy(s) == s = NULL \/ s = ""

(* a || b for string fields *)
OrElse(a, b) == IF Falsy(a) THEN b ELSE a

Creators == {"c1", "c2"}

EventTypes == {"disk_full", "service_down"}

-----------------------------------------------------------------------------
(* Request bodies *)

NoParams == [script |-> NULL, service |-> NULL, message |-> NULL]

IsolateDevice == [action_type |-> "isolate_device", parameters |-> NoParams]
Notify == [action_type |-> "notify", parameters |-> NoParams]
RunScript ==
    [action_type |-> "run_script",
     parameters |-> [NoParams EXCEPT !.script = "cleanup.sh"]]
RebootUniverse == [action_type |-> "reboot_universe", parameters |-> NoParams]

EmptyEvent == [event_type |-> NULL, device_id |-> NULL, test |-> FALSE]

(* test_event absent from the body *)
MissingEvent == [missing |-> TRUE]

Event(t, d) == [event_type |-> t, device_id |-> d, test |-> FALSE]

Events ==
    { Event("disk_full", "d1"), Event("service_down", NULL), Event(NULL, "d1") }

WorkflowRequest(t, c, a, test) ==
    [name |-> "wf", event_type |-> t, conditions |-> c, actions_array |-> TRUE,
     actions |-> a, test |-> test, test_event |-> MissingEvent]

ValidWorkflowRequests ==
    { WorkflowRequest("disk_full", "device_id = d2", <<RebootUniverse, RunScript>>, TRUE),
      WorkflowRequest("service_down", NULL, <<IsolateDevice>>, FALSE) }

GoodWorkflowRequest ==
    [name |-> "wf", event_type |-> "disk_full", conditions |-> NULL,
     actions_array |-> TRUE, actions |-> <<Notify>>, test |-> TRUE,
     test_event |-> MissingEvent]

InvalidWorkflowRequests ==
    { [GoodWorkflowRequest EXCEPT !.name = NULL],
      [GoodWorkflowRequest EXCEPT !.event_type = NULL],
      [GoodWorkflowRequest EXCEPT !.actions_array = FALSE, !.actions = <<>>],
      [GoodWorkflowRequest EXCEPT !.actions = <<>>] }

WorkflowRequests == ValidWorkflowRequests \cup InvalidWorkflowRequests

(* requests with and without the test flag, with and without a test_event *)
DryRunRequests ==
    { [WorkflowRequest("disk_full", NULL, <<RebootUniverse, RunScript>>, test)
          EXCEPT !.test_event = e] :
        test \in BOOLEAN, e \in {MissingEvent, Event("disk_full", "d1")} }
    \cup {[GoodWorkflowRequest EXCEPT !.name = NULL]}


(* action kinds: the cases of the dispatcher, and strings that are none of them *)
ActionKinds ==
    {"run_script", "restart_service", "isolate_device", "notify",
     "send_notification", "create_ticket", "reboot_universe", "RUN_SCRIPT", ""}

RestartService ==
    [action_type |-> "restart_service",
     parameters |-> [NoParams EXCEPT !.service = "nginx", !.message = "restarting"]]

ExecutorActions ==
    {[action_type |-> k, parameters |-> NoParams] : k \in ActionKinds}
    \cup {RunScript, RestartService}

(* one-action workflows of every kind, dry-run at creation on either event *)
ExecutorRequests ==
    { [WorkflowRequest("disk_full", NULL, <<a>>, TRUE) EXCEPT !.test_event = e] :
        a \in ExecutorActions, e \in {MissingEvent, Event("disk_full", "d1")} }

(* c1 sends any request; c2 is a second client creating one more workflow *)
Repertoire(c) ==
    IF c = "c1" THEN WorkflowRequests
    ELSE {WorkflowRequest("service_down", NULL, <<IsolateDevice>>, FALSE)}

TestRequests ==
    { [workflow_id |-> w, test_event |-> e] :
        w \in 0..MaxWorkflows, e \in {MissingEvent, Event("disk_full", "d1")} }

-----------------------------------------------------------------------------
(* automation-service: pure parts *)

RECURSIVE SortById(_)
SortById(S) ==
    IF S = {} THEN <<>>
    ELSE LET m == CHOOSE r \in S : \A q \in S : r.id <= q.id
         IN  <<m>> \o SortById(S \ {m})

(* The orders in which a query without ORDER BY may return the rows S *)
Orderings(S) ==
    { s \in [1..Cardinality(S) -> S] : \A i, j \in DOMAIN s : i # j => s[i] # s[j] }

(* SERIAL PRIMARY KEY *)
NextId(table) == Cardinality(table) + 1

(* if (!name || !event_type || !Array.isArray(actions) || actions.length === 0) *)
InvalidWorkflowRequest(req) ==
    \/ Falsy(req.name)
    \/ Falsy(req.event_type)
    \/ ~req.actions_array
    \/ Len(req.actions) = 0

(* if (!event_type) *)
InvalidEvent(event) == Falsy(event.event_type)

(* if (!workflow_id) *)
InvalidTestRequest(req) == req.workflow_id = 0

(* the query without its WHERE clause *)
SelectWorkflowsAnyType(event_type) ==
    { [id |-> w.id, conditions |-> w.conditions] : w \in workflows }

(* SELECT id, conditions FROM workflows WHERE event_type = $1 *)
SelectWorkflows(event_type) ==
    { [id |-> w.id, conditions |-> w.conditions] :
        w \in {x \in workflows : x.event_type = event_type} }

RECURSIVE Reverse(_)
Reverse(s) == IF s = <<>> THEN <<>> ELSE Append(Reverse(Tail(s)), Head(s))

(* the query with ORDER BY id DESC *)
SelectActionsDescending(workflowId) ==
    Reverse(SortById({ [id |-> a.id, action_type |-> a.action_type,
                        parameters |-> a.parameters] :
                         a \in {x \in workflow_actions : x.workflow_id = workflowId} }))


(* the query without its WHERE clause *)
SelectActionsAnyWorkflow(workflowId) ==
    SortById({ [id |-> a.id, action_type |-> a.action_type, parameters |-> a.parameters] :
                 a \in workflow_actions })

(* SELECT id, action_type, parameters FROM workflow_actions
   WHERE workflow_id = $1 ORDER BY id ASC *)
SelectActions(workflowId) ==
    SortById({ [id |-> a.id, action_type |-> a.action_type, parameters |-> a.parameters] :
                 a \in {x \in workflow_actions : x.workflow_id = workflowId} })

evaluateConditions(conditions, event) == TRUE

KnownActionTypes ==
    {"run_script", "restart_service", "isolate_device", "notify",
     "send_notification", "create_ticket"}

(* a dispatcher whose default branch reports an error *)
doActionDefaultFails(action, event, testMode) ==
    LET type == action.action_type
    IN  IF type \in KnownActionTypes
        THEN [action |-> type, status |-> "success", message |-> "done"]
        ELSE [action |-> type, status |-> "error", message |-> "unknown action"]


(* a dispatcher without the case 'send_notification' *)
doActionWithoutAlias(action, event, testMode) ==
    LET type == action.action_type
    IN  IF type \in KnownActionTypes \ {"send_notification"}
        THEN [action |-> type, status |-> "success", message |-> "done"]
        ELSE [action |-> type, status |-> "unknown", message |-> "unknown action"]

doAction(action, event, testMode) ==
    LET type == action.action_type
        params == action.parameters
    IN  CASE type = "run_script" ->
               [action |-> type, status |-> "success",
                message |-> "script " \o OrElse(params.script, "executed")]
          [] type = "restart_service" ->
               [action |-> type, status |-> "success",
                message |-> "service " \o OrElse(params.service, "restarted")]
          [] type = "isolate_device" ->
               [action |-> type, status |-> "success", message |-> "device isolated"]
          [] type \in {"notify", "send_notification"} ->
               [action |-> type, status |-> "success", message |-> "notification sent"]
          [] type = "create_ticket" ->
               [action |-> type, status |-> "success", message |-> "ticket created"]
          [] OTHER ->
               [action |-> type, status |-> "unknown", message |-> "unknown action"]

(* the log written in test mode too *)
WritesLogAlways(testMode) == TRUE


(* the log written in test mode only: if (testMode) *)
WritesLogInTestMode(testMode) == testMode

(* if (!testMode) { INSERT INTO workflow_logs ... } *)
WritesLog(testMode) == ~testMode

(* a row holding the last outcome only *)
LogRowLastOutcome(workflowId, event, results) ==
    [workflow_id |-> workflowId, event_data |-> event,
     result |-> IF results = <<>> THEN <<>> ELSE <<results[Len(results)]>>]

(* VALUES ($1, $2, $3), [workflowId, event, results] *)
LogRow(workflowId, event, results) ==
    [workflow_id |-> workflowId, event_data |-> event, result |-> results]

(* const testEvent = req.body.test_event || { event_type, test: true } *)
CreationTestEvent(req) ==
    IF req.test_event = MissingEvent
    THEN [event_type |-> req.event_type, device_id |-> NULL, test |-> TRUE]
    ELSE req.test_event

(* test_event ?? {} *)
TestEvent(req) ==
    IF req.test_event = MissingEvent THEN EmptyEvent ELSE req.test_event

-----------------------------------------------------------------------------
(* executeWorkflow: the state of one call.
   pc: "none" (no call), "select" (the SELECT is awaited), "actions" (the
   loop), "log" (the INSERT is awaited), "returned", "threw".
   whole is history: the workflow's actions were all inserted at the SELECT. *)

NoCall ==
    [pc |-> "none", workflowId |-> 0, event |-> EmptyEvent, testMode |-> FALSE,
     actions |-> <<>>, results |-> <<>>, whole |-> FALSE]

executeWorkflow(workflowId, event, testMode) ==
    [NoCall EXCEPT !.pc = "select", !.workflowId = workflowId, !.event = event,
                   !.testMode = testMode]

(* where the call goes once the loop over actions has ended *)
AfterLoop(ex) ==
    IF WritesLog(ex.testMode) THEN [ex EXCEPT !.pc = "log"]
    ELSE [ex EXCEPT !.pc = "returned"]

(* the SELECT of the actions returned *)
ExecSelected(ex) ==
    LET got == [ex EXCEPT !.actions = SelectActions(ex.workflowId),
                          !.pc = "actions",
                          !.whole = ex.workflowId \in complete]
    IN  IF Len(got.actions) = 0 THEN AfterLoop(got) ELSE got


(* a loop that ends at the first outcome whose status is not success *)
ExecActionUntilFailure(ex) ==
    LET action == ex.actions[Len(ex.results) + 1]
        got == [ex EXCEPT !.results = Append(@, doAction(action, ex.event, ex.testMode))]
    IN  IF \/ Len(got.results) = Len(got.actions)
           \/ got.results[Len(got.results)].status # "success"
        THEN AfterLoop(got) ELSE got

(* one iteration: const result = await doAction(...); results.push(result) *)
ExecAction(ex) ==
    LET action == ex.actions[Len(ex.results) + 1]
        got == [ex EXCEPT !.results = Append(@, doAction(action, ex.event, ex.testMode))]
    IN  IF Len(got.results) = Len(got.actions) THEN AfterLoop(got) ELSE got

ExecThrew(ex) == [ex EXCEPT !.pc = "threw"]

ExecReturned(ex) == [ex EXCEPT !.pc = "returned"]


(* One step of a call: the awaited query returns (ok) or throws, or one
   iteration of the loop runs. *)
ExecStep(ex, ok) ==
    CASE ex.pc = "select" -> IF ok THEN ExecSelected(ex) ELSE ExecThrew(ex)
      [] ex.pc = "actions" -> ExecAction(ex)
      [] ex.pc = "log" -> IF ok THEN ExecReturned(ex) ELSE ExecThrew(ex)

(* only an awaited query can throw; the INSERT succeeds while the table has room *)
ExecCanStep(ex, ok) ==
    /\ ex.pc \in {"select", "actions", "log"}
    /\ ~ok => ex.pc \in {"select", "log"}
    /\ (ok /\ ex.pc = "log") => Len(workflow_logs) < MaxLogs



(* a log that takes the row even when the INSERT throws *)
ExecLogsThoughThrown(ex, ok) ==
    IF ex.pc = "log"
    THEN Append(workflow_logs, LogRow(ex.workflowId, ex.event, ex.results))
    ELSE workflow_logs

(* a log that holds the row of the last execution only *)
ExecLogsLatestOnly(ex, ok) ==
    IF ex.pc = "log" /\ ok
    THEN <<LogRow(ex.workflowId, ex.event, ex.results)>>
    ELSE workflow_logs

(* workflow_logs after that step *)
ExecLogs(ex, ok) ==
    IF ex.pc = "log" /\ ok
    THEN Append(workflow_logs, LogRow(ex.workflowId, ex.event, ex.results))
    ELSE workflow_logs

(* the number of the row that step wrote, 0 if it wrote none *)
LoggedAt(ex, ok) ==
    IF Len(ExecLogs(ex, ok)) > Len(workflow_logs) THEN Len(ExecLogs(ex, ok)) ELSE 0

-----------------------------------------------------------------------------
(* POST /api/workflows.  missing is history: the body lacked a required field;
   asked and supplied are history: the body's test flag and its test_event. *)

MissingWorkflowField(req) ==
    \/ req.name = NULL
    \/ req.event_type = NULL
    \/ ~req.actions_array
    \/ req.actions = <<>>

CreateIdle ==
    [pc |-> "idle", req |-> GoodWorkflowRequest, workflowId |-> 0, i |-> 0,
     ex |-> NoCall, status |-> 0, test_result |-> <<>>, tested |-> FALSE,
     test_event |-> EmptyEvent, missing |-> FALSE, asked |-> FALSE,
     supplied |-> MissingEvent]

(* res.status(201).json({ workflow_id, test_result }) or the catch's 500 *)
CreateRespond(h, status) ==
    [CreateIdle EXCEPT !.pc = "done", !.status = status,
                       !.workflowId = IF status = 201 THEN h.workflowId ELSE 0,
                       !.tested = status = 201 /\ h.ex.pc = "returned",
                       !.asked = status = 201 /\ h.asked,
                       !.supplied = IF status = 201 THEN h.supplied ELSE MissingEvent,
                       !.test_event = IF status = 201 THEN h.ex.event ELSE EmptyEvent,
                       !.test_result = IF status = 201 THEN h.ex.results ELSE <<>>]

(* the workflow tested whenever the body holds a test_event *)
CreateTestsWhenEventSupplied(h) ==
    IF h.req.test_event # MissingEvent
    THEN [h EXCEPT !.pc = "test", !.req = GoodWorkflowRequest, !.i = 0,
                   !.ex = executeWorkflow(h.workflowId, CreationTestEvent(h.req), TRUE)]
    ELSE CreateRespond(h, 201)

(* after the last action insert: test the workflow or answer *)
CreateAfterActions(h) ==
    IF h.req.test
    THEN [h EXCEPT !.pc = "test", !.req = GoodWorkflowRequest, !.i = 0,
                   !.ex = executeWorkflow(h.workflowId, CreationTestEvent(h.req), TRUE)]
    ELSE CreateRespond(h, 201)

PendingCreates == Cardinality({c \in Creators : cw[c].pc = "insert_workflow"})

CreateBegin(c, req) ==
    /\ cw[c].pc \in {"idle", "done"}
    /\ Cardinality(workflows) + PendingCreates < MaxWorkflows
    /\ cw' = [cw EXCEPT ![c] =
                IF InvalidWorkflowRequest(req)
                THEN [CreateIdle EXCEPT !.pc = "done", !.status = 400,
                                        !.missing = MissingWorkflowField(req)]
                ELSE [CreateIdle EXCEPT !.pc = "insert_workflow", !.req = req,
                                        !.missing = MissingWorkflowField(req),
                                        !.asked = req.test,
                                        !.supplied = req.test_event]]
    /\ UNCHANGED alertVars
    /\ UNCHANGED patchVars
    /\ UNCHANGED <<workflows, workflow_actions, workflow_logs, sb, ts,
                   requested, complete, prevTest>>

CreateInsertWorkflow(c) ==
    /\ cw[c].pc = "insert_workflow"
    /\ LET id == NextId(workflows)
           h == cw[c]
       IN  /\ workflows' = workflows \cup
                  {[id |-> id, name |-> h.req.name, event_type |-> h.req.event_type,
                    conditions |-> h.req.conditions]}
           /\ requested' = Append(requested, h.req.actions)
           /\ cw' = [cw EXCEPT ![c] = [h EXCEPT !.pc = "insert_actions",
                                                !.workflowId = id, !.i = 1]]
    /\ UNCHANGED alertVars
    /\ UNCHANGED patchVars
    /\ UNCHANGED <<workflow_actions, workflow_logs, sb, ts, complete, prevTest>>

CreateInsertAction(c) ==
    /\ cw[c].pc = "insert_actions"
    /\ LET h == cw[c]
           action == h.req.actions[h.i]
           last == h.i = Len(h.req.actions)
       IN  /\ workflow_actions' = workflow_actions \cup
                  {[id |-> NextId(workflow_actions), workflow_id |-> h.workflowId,
                    action_type |-> action.action_type,
                    parameters |-> action.parameters]}
           /\ complete' = IF last THEN complete \cup {h.workflowId} ELSE complete
           /\ cw' = [cw EXCEPT ![c] =
                        IF last THEN CreateAfterActions(h)
                        ELSE [h EXCEPT !.i = h.i + 1]]
    /\ UNCHANGED alertVars
    /\ UNCHANGED patchVars
    /\ UNCHANGED <<workflows, workflow_logs, sb, ts, requested, prevTest>>

(* an INSERT of the handler throws: catch, 500 *)
CreateInsertFails(c) ==
    /\ cw[c].pc \in {"insert_workflow", "insert_actions"}
    /\ cw' = [cw EXCEPT ![c] = CreateRespond(cw[c], 500)]
    /\ UNCHANGED alertVars
    /\ UNCHANGED patchVars
    /\ UNCHANGED <<workflows, workflow_actions, workflow_logs, sb, ts,
                   requested, complete, prevTest>>

(* the inline test: testResult = await executeWorkflow(workflowId, testEvent, true) *)
CreateTestStep(c) ==
    /\ cw[c].pc = "test"
    /\ \E ok \in BOOLEAN :
        /\ ExecCanStep(cw[c].ex, ok)
        /\ LET ex == ExecStep(cw[c].ex, ok)
               h == [cw[c] EXCEPT !.ex = ex]
           IN  cw' = [cw EXCEPT ![c] =
                        CASE ex.pc = "returned" -> CreateRespond(h, 201)
                          [] ex.pc = "threw" -> CreateRespond(h, 500)
                          [] OTHER -> h]
        /\ workflow_logs' = ExecLogs(cw[c].ex, ok)
    /\ UNCHANGED alertVars
    /\ UNCHANGED patchVars
    /\ UNCHANGED <<workflows, workflow_actions, sb, ts, requested, complete, prevTest>>

-----------------------------------------------------------------------------
(* POST /api/events.  seen is history: the ids of the workflows stored when
   the SELECT ran; whole and row in a result are history: the workflow's
   actions were all inserted when the execution read them, and the number
   of the workflow_logs row the execution wrote. *)

SubmitIdle ==
    [pc |-> "idle", event |-> EmptyEvent, workflows |-> <<>>, k |-> 0,
     results |-> <<>>, ex |-> NoCall, status |-> 0, processed |-> 0,
     seen |-> {}, missing |-> FALSE]

(* res.status(202).json({ processed: results.length, results }) or the catch's 500 *)
SubmitRespond(h, status) ==
    [h EXCEPT !.pc = "done", !.status = status, !.ex = NoCall,
              !.workflows = <<>>, !.k = 0,
              !.processed = IF status = 202 THEN Len(h.results) ELSE 0]

(* for (const wf of workflows) { if (evaluateConditions(...)) { await executeWorkflow(...) } } *)
RECURSIVE SubmitLoop(_)
SubmitLoop(h) ==
    IF h.k > Len(h.workflows) THEN SubmitRespond(h, 202)
    ELSE IF evaluateConditions(h.workflows[h.k].conditions, h.event)
         THEN [h EXCEPT !.pc = "exec",
                        !.ex = executeWorkflow(h.workflows[h.k].id, h.event, FALSE)]
         ELSE SubmitLoop([h EXCEPT !.k = h.k + 1])

MissingEventField(event) == event.event_type = NULL

SubmitBegin(event) ==
    /\ sb.pc \in {"idle", "done"}
    /\ Len(workflow_logs) < MaxLogs
    /\ sb' = IF InvalidEvent(event)
             THEN [SubmitIdle EXCEPT !.pc = "done", !.status = 400,
                                     !.missing = MissingEventField(event)]
             ELSE [SubmitIdle EXCEPT !.pc = "select", !.event = event,
                                     !.missing = MissingEventField(event)]
    /\ UNCHANGED alertVars
    /\ UNCHANGED patchVars
    /\ UNCHANGED <<workflows, workflow_actions, workflow_logs, cw, ts,
                   requested, complete, prevTest>>

SubmitSelect ==
    /\ sb.pc = "select"
    /\ \/ \E rows \in Orderings(SelectWorkflows(sb.event.event_type)) :
            sb' = SubmitLoop([sb EXCEPT !.workflows = rows, !.k = 1,
                                        !.seen = {w.id : w \in workflows}])
       \/ sb' = SubmitRespond(sb, 500)
    /\ UNCHANGED alertVars
    /\ UNCHANGED patchVars
    /\ UNCHANGED <<workflows, workflow_actions, workflow_logs, cw, ts,
                   requested, complete, prevTest>>

(* const result = await executeWorkflow(wf.id, event, false); results.push(...) *)
SubmitExecStep ==
    /\ sb.pc = "exec"
    /\ \E ok \in BOOLEAN :
        /\ ExecCanStep(sb.ex, ok)
        /\ LET ex == ExecStep(sb.ex, ok)
               h == [sb EXCEPT !.ex = ex]
           IN  sb' = CASE ex.pc = "returned" ->
                            SubmitLoop([h EXCEPT
                                !.results = Append(@, [workflow_id |-> ex.workflowId,
                                                       result |-> ex.results,
                                                       whole |-> ex.whole,
                                                       row |-> LoggedAt(sb.ex, ok)]),
                                !.k = h.k + 1])
                       [] ex.pc = "threw" -> SubmitRespond(h, 500)
                       [] OTHER -> h
        /\ workflow_logs' = ExecLogs(sb.ex, ok)
    /\ UNCHANGED alertVars
    /\ UNCHANGED patchVars
    /\ UNCHANGED <<workflows, workflow_actions, cw, ts, requested, complete, prevTest>>

-----------------------------------------------------------------------------
(* POST /api/workflows/test *)

TestIdle ==
    [pc |-> "idle", ex |-> NoCall, status |-> 0, workflowId |-> 0,
     event |-> EmptyEvent, result |-> <<>>, whole |-> FALSE, missing |-> FALSE]

NoTest == [TestIdle EXCEPT !.pc = "none"]

(* res.json({ result }) or the catch's 500 *)
TestRespond(h, status) ==
    [h EXCEPT !.pc = "done", !.status = status,
              !.workflowId = h.ex.workflowId, !.event = h.ex.event,
              !.result = IF status = 200 THEN h.ex.results ELSE <<>>,
              !.whole = h.ex.whole, !.ex = NoCall]

(* a body without workflow_id is read as workflow_id 0 *)
MissingTestField(req) == req.workflow_id = 0

TestBegin(req) ==
    /\ ts.pc \in {"idle", "done"}
    /\ ts' = IF InvalidTestRequest(req)
             THEN [TestIdle EXCEPT !.pc = "done", !.status = 400,
                                   !.missing = MissingTestField(req)]
             ELSE [TestIdle EXCEPT !.pc = "exec", !.missing = MissingTestField(req),
                     !.ex = executeWorkflow(req.workflow_id, TestEvent(req), TRUE)]
    /\ prevTest' = IF ts.pc = "done" /\ ts.status = 200 THEN ts ELSE prevTest
    /\ UNCHANGED alertVars
    /\ UNCHANGED patchVars
    /\ UNCHANGED <<workflows, workflow_actions, workflow_logs, cw, sb,
                   requested, complete>>

TestExecStep ==
    /\ ts.pc = "exec"
    /\ \E ok \in BOOLEAN :
        /\ ExecCanStep(ts.ex, ok)
        /\ LET ex == ExecStep(ts.ex, ok)
               h == [ts EXCEPT !.ex = ex]
           IN  ts' = CASE ex.pc = "returned" -> TestRespond(h, 200)
                       [] ex.pc = "threw" -> TestRespond(h, 500)
                       [] OTHER -> h
        /\ workflow_logs' = ExecLogs(ts.ex, ok)
    /\ UNCHANGED alertVars
    /\ UNCHANGED patchVars
    /\ UNCHANGED <<workflows, workflow_actions, cw, sb, requested, complete, prevTest>>

(* ingestion-service and alert-service: values and request bodies *)

(* a numeric JSON value, null, or an absent (undefined) field *)
Num(n) == [k |-> "number", n |-> n]
NullValue == [k |-> "null", n |-> 0]
Undefined == [k |-> "undefined", n |-> 0]

(* v ?? null *)
NullIfUndefined(v) == IF v = Undefined THEN NullValue ELSE v

(* object[key] *)
Lookup(object, key) == IF key \in DOMAIN object THEN object[key] ELSE Undefined

(* metrics absent from the body *)
MissingMetrics == [missing |-> TRUE]

SampleMetrics ==
    { [cpu |-> Num(92)],
      [cpu |-> Num(85), disk |-> Num(80)],
      [cpu |-> NullValue, disk |-> Num(92)] }

GoodSample == [device_id |-> "d1", timestamp |-> "t1", metrics |-> [cpu |-> Num(92)]]

IngestRequests ==
    { [GoodSample EXCEPT !.metrics = m] : m \in SampleMetrics }
    \cup { [GoodSample EXCEPT !.device_id = NULL],
           [GoodSample EXCEPT !.timestamp = NULL],
           [GoodSample EXCEPT !.metrics = MissingMetrics] }


(* the same metrics sent with a later and with an earlier timestamp, and
   other metrics *)
RepeatedIngestRequests ==
    { GoodSample,
      [GoodSample EXCEPT !.timestamp = "t0"],
      [GoodSample EXCEPT !.metrics = [cpu |-> Num(50)]] }

RuleRequest(metric, comparison, threshold, suggestion, description) ==
    [metric |-> metric, threshold |-> threshold, comparison |-> comparison,
     channel |-> NULL, suggestion |-> suggestion, description |-> description]


(* two rules that cpu 92 breaches, one that cpu 50 breaches too *)
RepeatedRuleRequests ==
    { RuleRequest("cpu", "gt", Num(85), NULL, NULL),
      RuleRequest("cpu", "lt", Num(95), NULL, NULL) }

(* a sample with a value for every metric of the suggestion table and for one
   more, and a rule on each that the sample breaches: one rule with its own
   suggestion and description, the others without *)
FullSample ==
    [GoodSample EXCEPT !.metrics =
        [cpu |-> Num(92), memory |-> Num(40), disk |-> Num(92),
         latency |-> Num(250), network |-> Num(20)]]

BreachedRuleRequests ==
    { RuleRequest("cpu", "gt", Num(85), NULL, NULL),
      RuleRequest("memory", "lt", Num(50), NULL, NULL),
      RuleRequest("disk", "gt", Num(85), "Free disk space", "Disk nearly full"),
      RuleRequest("latency", "gt", Num(100), NULL, NULL),
      RuleRequest("network", "gt", Num(10), NULL, NULL) }

(* rules on cpu in either direction, and one whose comparison is neither *)
DirectedRuleRequests ==
    { RuleRequest("cpu", "gt", Num(85), NULL, NULL),
      RuleRequest("cpu", "lt", Num(85), NULL, NULL),
      RuleRequest("cpu", "gte", Num(85), NULL, NULL) }

(* samples above, at and below the threshold of those rules *)
DirectedIngestRequests ==
    { [GoodSample EXCEPT !.metrics = [cpu |-> Num(n)]] : n \in {92, 85, 50} }

RuleRequests ==
    { RuleRequest("cpu", "gt", Num(85), NULL, NULL),
      RuleRequest("cpu", "lt", Num(85), NULL, NULL),
      RuleRequest("disk", "gt", Num(85), "Free disk space", "Disk nearly full"),
      RuleRequest("disk", "lt", Num(85), NULL, NULL),
      RuleRequest(NULL, "gt", Num(85), NULL, NULL),
      RuleRequest("cpu", "gt", Undefined, NULL, NULL),
      RuleRequest("cpu", NULL, Num(85), NULL, NULL) }

(* rule_id is 0 where the body has none: rule_id ?? null *)
GoodAlert ==
    [device_id |-> "d1", metric |-> "cpu", value |-> Num(92), threshold |-> Num(85),
     rule_id |-> 0, suggestion |-> NULL, description |-> NULL]

(* an intent posted by a client other than the ingestion service: a value
   below the threshold, said to come from rule 1 *)
UnbreachedIntents ==
    { [GoodAlert EXCEPT !.value = Num(50), !.rule_id = 1] }

AlertRequests ==
    { GoodAlert,
      [GoodAlert EXCEPT !.value = NullValue],
      [GoodAlert EXCEPT !.device_id = NULL],
      [GoodAlert EXCEPT !.metric = NULL],
      [GoodAlert EXCEPT !.value = Undefined],
      [GoodAlert EXCEPT !.threshold = Undefined] }

(* intents: the device id in lower and in upper case and not a UUID, the
   optional fields absent and given, a null value *)
IntentRequests ==
    { GoodAlert,
      [GoodAlert EXCEPT !.device_id = "D1"],
      [GoodAlert EXCEPT !.device_id = "dev-7"],
      [GoodAlert EXCEPT !.rule_id = 1, !.suggestion = "restart the service",
                        !.description = "cpu above 85"],
      [GoodAlert EXCEPT !.value = NullValue] }

Channels == <<"email", "sms", "itsm">>

-----------------------------------------------------------------------------
(* ingestion-service: pure parts *)

(* the check without the timestamp *)
InvalidIngestRequestNoTimestamp(req) ==
    \/ Falsy(req.device_id)
    \/ req.metrics = MissingMetrics

(* if (!device_id || !timestamp || !metrics) *)
InvalidIngestRequest(req) ==
    \/ Falsy(req.device_id)
    \/ Falsy(req.timestamp)
    \/ req.metrics = MissingMetrics

(* [device_id, new Date(timestamp), metrics.cpu ?? null, ...] *)
MetricsRow(req) ==
    [device_id |-> req.device_id, timestamp |-> req.timestamp,
     cpu |-> NullIfUndefined(Lookup(req.metrics, "cpu")),
     memory |-> NullIfUndefined(Lookup(req.metrics, "memory")),
     disk |-> NullIfUndefined(Lookup(req.metrics, "disk")),
     network |-> NullIfUndefined(Lookup(req.metrics, "network"))]

(* if (value === undefined || value === null) continue *)
Skipped(value) == value = Undefined \/ value = NullValue

(* the test with >= and <= *)
BreachOrEqual(rule, value) ==
    \/ rule.comparison = "gt" /\ value.n >= rule.threshold.n
    \/ rule.comparison = "lt" /\ value.n <= rule.threshold.n


(* the test without the rule's direction *)
BreachEitherWay(rule, value) == value.n # rule.threshold.n

(* if (rule.comparison === 'gt' && value > rule.threshold) breach = true;
   if (rule.comparison === 'lt' && value < rule.threshold) breach = true *)
Breach(rule, value) ==
    \/ rule.comparison = "gt" /\ value.n > rule.threshold.n
    \/ rule.comparison = "lt" /\ value.n < rule.threshold.n


(* the table without its case 'latency' *)
getDefaultSuggestionWithoutLatency(metric) ==
    CASE metric = "cpu" ->
           "Investigate high CPU usage by reviewing running processes and workloads."
      [] metric = "memory" ->
           "Analyse memory consumption and optimise applications to reduce usage."
      [] metric = "disk" ->
           "Check disk utilisation; free up space or expand storage as required."
      [] OTHER -> "Investigate the alert condition and take appropriate action."

getDefaultSuggestion(metric) ==
    CASE metric = "cpu" ->
           "Investigate high CPU usage by reviewing running processes and workloads."
      [] metric = "memory" ->
           "Analyse memory consumption and optimise applications to reduce usage."
      [] metric = "disk" ->
           "Check disk utilisation; free up space or expand storage as required."
      [] metric = "latency" ->
           "Investigate network latency; verify connectivity and reduce load."
      [] OTHER -> "Investigate the alert condition and take appropriate action."

(* the payload of sendAlert for a breached rule *)
AlertPayload(deviceId, rule, value) ==
    [device_id |-> deviceId, metric |-> rule.metric, value |-> value,
     threshold |-> rule.threshold, rule_id |-> rule.id,
     suggestion |-> IF rule.suggestion = NULL THEN getDefaultSuggestion(rule.metric)
                    ELSE rule.suggestion,
     description |-> IF rule.description = NULL
                     THEN "Metric " \o rule.metric \o " " \o rule.comparison
                          \o " threshold " \o ToString(rule.threshold.n)
                     ELSE rule.description]

(* SELECT id, metric, threshold, comparison, suggestion, description FROM alert_rules *)
SelectRules ==
    { [id |-> r.id, metric |-> r.metric, threshold |-> r.threshold,
       comparison |-> r.comparison, suggestion |-> r.suggestion,
       description |-> r.description] : r \in alert_rules }


(* an evaluation that looks at no metric of a device with an earlier sample *)
evaluateRulesOncePerDevice(deviceId, sample) ==
    [pc |-> "read", deviceId |-> deviceId,
     metrics |-> IF \E i \in DOMAIN metrics : metrics[i].device_id = deviceId
                 THEN [cpu |-> NullValue] ELSE sample,
     rules |-> <<>>, i |-> 0, sent |-> <<>>]

(* evaluateRules: the state of one call.
   pc: "read" (the SELECT is awaited), "post" (sendAlert's axios.post is
   awaited), "await" (the alert service is handling the post), "done",
   "failed" (the catch).  sent is history: the payloads given to sendAlert. *)
evaluateRules(deviceId, sample) ==
    [pc |-> "read", deviceId |-> deviceId, metrics |-> sample, rules |-> <<>>,
     i |-> 0, sent |-> <<>>]


(* a loop that reads the rule set again at every rule *)
RECURSIVE EvalLoopRereading(_)
EvalLoopRereading(t) ==
    LET u == [t EXCEPT !.rules = CHOOSE s \in Orderings(SelectRules) : TRUE]
    IN  IF u.i > Len(u.rules) THEN [u EXCEPT !.pc = "done"]
        ELSE LET rule == u.rules[u.i]
                 value == Lookup(u.metrics, rule.metric)
             IN  IF Skipped(value) THEN EvalLoopRereading([u EXCEPT !.i = u.i + 1])
                 ELSE IF Breach(rule, value)
                      THEN [u EXCEPT !.pc = "post",
                                     !.sent = Append(@, AlertPayload(u.deviceId, rule, value))]
                      ELSE EvalLoopRereading([u EXCEPT !.i = u.i + 1])

(* for (const rule of rules) { ... } from rule i on, up to the next sendAlert *)
RECURSIVE EvalLoop(_)
EvalLoop(t) ==
    IF t.i > Len(t.rules) THEN [t EXCEPT !.pc = "done"]
    ELSE LET rule == t.rules[t.i]
             value == Lookup(t.metrics, rule.metric)
         IN  IF Skipped(value) THEN EvalLoop([t EXCEPT !.i = t.i + 1])
             ELSE IF Breach(rule, value)
                  THEN [t EXCEPT !.pc = "post",
                                 !.sent = Append(@, AlertPayload(t.deviceId, rule, value))]
                  ELSE EvalLoop([t EXCEPT !.i = t.i + 1])

-----------------------------------------------------------------------------
(* alert-service: pure parts *)

(* if (!metric || threshold === undefined || !comparison) *)
InvalidRuleRequest(req) ==
    \/ Falsy(req.metric)
    \/ req.threshold = Undefined
    \/ Falsy(req.comparison)

(* [metric, threshold, comparison, channel ?? 'email', suggestion ?? null, description ?? null] *)
RuleRow(id, req) ==
    [id |-> id, metric |-> req.metric, threshold |-> req.threshold,
     comparison |-> req.comparison, channel |-> OrElse(req.channel, "email"),
     suggestion |-> req.suggestion, description |-> req.description]

(* if (!device_id || !metric || value === undefined || threshold === undefined) *)
InvalidAlertRequest(req) ==
    \/ Falsy(req.device_id)
    \/ Falsy(req.metric)
    \/ req.value = Undefined
    \/ req.threshold = Undefined

(* device_id UUID NOT NULL: the text given must be a UUID; the column takes
   upper-case hex digits and gives the UUID back in lower case.  "D1" is the
   UUID "d1" written in upper case, "dev-7" is no UUID. *)
IsUuid(text) == text \in {"d1", "D1"}

UuidOut(text) == IF text = "D1" THEN "d1" ELSE text

(* the row without the rule id *)
AlertRowWithoutRule(req) ==
    [device_id |-> UuidOut(req.device_id), metric |-> req.metric, value |-> req.value,
     threshold |-> req.threshold, rule_id |-> 0,
     suggestion |-> req.suggestion, description |-> req.description]

(* [device_id, metric, value, threshold, rule_id ?? null, suggestion ?? null, description ?? null] *)
AlertRow(req) ==
    [device_id |-> UuidOut(req.device_id), metric |-> req.metric, value |-> req.value,
     threshold |-> req.threshold, rule_id |-> req.rule_id,
     suggestion |-> req.suggestion, description |-> req.description]

(* value DOUBLE PRECISION NOT NULL, threshold DOUBLE PRECISION NOT NULL *)
ViolatesNotNull(row) == row.value = NullValue \/ row.threshold = NullValue

(* rule_id INTEGER REFERENCES alert_rules(id) *)
ViolatesForeignKey(row) ==
    row.rule_id # 0 /\ row.rule_id \notin {r.id : r \in alert_rules}

(* a list query of the alerts: the rows in insertion order *)
ListAlerts == alerts

-----------------------------------------------------------------------------
(* POST /api/alert-rules *)

CreateRule(req) ==
    /\ Cardinality(alert_rules) < MaxRules
    /\ \/ /\ InvalidRuleRequest(req)
          /\ rc' = [status |-> 400]
          /\ UNCHANGED alert_rules
       \/ /\ ~InvalidRuleRequest(req)
          /\ alert_rules' = alert_rules \cup {RuleRow(NextId(alert_rules), req)}
          /\ rc' = [status |-> 201]
       \/ /\ ~InvalidRuleRequest(req)
          /\ rc' = [status |-> 500]
          /\ UNCHANGED alert_rules
    /\ UNCHANGED <<metrics, alerts, configured, ig, evals, ra>>
    /\ UNCHANGED automationVars
    /\ UNCHANGED patchVars

-----------------------------------------------------------------------------
(* POST /api/ingest.  row is history: the metrics row the request inserted;
   missing is history: the body lacked a required field. *)

MissingIngestField(req) ==
    \/ req.device_id = NULL
    \/ req.timestamp = NULL
    \/ req.metrics = MissingMetrics

(* the answer whatever the INSERT did *)
IngestAlwaysAccepted(inserted) == 202

(* no answer after the INSERT: it is left to the evaluation *)
IngestAnswerAwaitsEvaluation(inserted) == IF inserted THEN 0 ELSE 500

(* res.status(202) after the INSERT, res.status(500) in the catch *)
IngestAnswer(inserted) == IF inserted THEN 202 ELSE 500

IngestIdle == [status |-> 0, req |-> GoodSample, row |-> 0, task |-> 0, missing |-> FALSE]

(* the handler has one await, the INSERT: it is rejected, or the INSERT
   throws, or the row is inserted, evaluateRules is called and runs up to
   its own first await, and 202 is answered *)
(* evaluateRules called whatever the INSERT did *)
EvaluationsWhateverInsert(inserted, req) ==
    Append(evals, evaluateRules(req.device_id, req.metrics))

(* evaluateRules is called inside the try, after the awaited INSERT: the
   calls there are once the INSERT has returned or thrown *)
EvaluationsAfterInsert(inserted, req) ==
    IF inserted THEN Append(evals, evaluateRules(req.device_id, req.metrics))
    ELSE evals

IngestUpTo(req, room) ==
    /\ Len(metrics) < room
    /\ \/ /\ InvalidIngestRequest(req)
          /\ ig' = [IngestIdle EXCEPT !.status = 400, !.req = req,
                                      !.missing = MissingIngestField(req)]
          /\ UNCHANGED <<metrics, evals>>
       \/ /\ ~InvalidIngestRequest(req)
          /\ metrics' = Append(metrics, MetricsRow(req))
          /\ evals' = EvaluationsAfterInsert(TRUE, req)
          /\ ig' = [IngestIdle EXCEPT !.status = IngestAnswer(TRUE), !.req = req,
                                      !.row = Len(metrics) + 1,
                                      !.task = Len(evals) + 1,
                                      !.missing = MissingIngestField(req)]
       \/ /\ ~InvalidIngestRequest(req)
          /\ ig' = [IngestIdle EXCEPT !.status = IngestAnswer(FALSE), !.req = req,
                                      !.missing = MissingIngestField(req)]
          /\ evals' = EvaluationsAfterInsert(FALSE, req)
          /\ UNCHANGED metrics
    /\ UNCHANGED <<alert_rules, alerts, configured, ra, rc>>
    /\ UNCHANGED automationVars
    /\ UNCHANGED patchVars

Ingest(req) == IngestUpTo(req, MaxSamples)

-----------------------------------------------------------------------------
(* POST /api/alerts.  row is history: the alerts row the request inserted;
   attempted and failed are history: the channels posted to, and those whose
   post threw; caller is the evaluateRules task awaiting the answer (0: another
   client). *)

MissingAlertField(req) ==
    \/ req.device_id = NULL
    \/ req.metric = NULL
    \/ req.value = Undefined
    \/ req.threshold = Undefined

RaiseIdle ==
    [pc |-> "idle", req |-> GoodAlert, status |-> 0, row |-> 0, attempted |-> {},
     failed |-> {}, caller |-> 0, missing |-> FALSE]

RaiseRespond(h, status) == [h EXCEPT !.pc = "done", !.status = status]

(* the next of if (EMAIL_WEBHOOK_URL), if (SMS_WEBHOOK_URL), if (ITSM_WEBHOOK_URL)
   after channel number j, or res.status(202) *)
RECURSIVE RaiseNotify(_, _)
RaiseNotify(h, j) ==
    IF j >= Len(Channels) THEN RaiseRespond(h, 202)
    ELSE IF Channels[j + 1] \in configured THEN [h EXCEPT !.pc = Channels[j + 1]]
         ELSE RaiseNotify(h, j + 1)

ChannelNumber(ch) == CHOOSE j \in DOMAIN Channels : Channels[j] = ch

(* a post to a webhook threw and nothing caught it before the outer catch *)
DispatchFailedAborts(h, ch) ==
    RaiseRespond([h EXCEPT !.attempted = @ \cup {ch}, !.failed = @ \cup {ch}], 500)

(* a post to a webhook threw: the inner catch logs it and the handler goes on *)
DispatchFailed(h, ch) ==
    RaiseNotify([h EXCEPT !.attempted = @ \cup {ch}, !.failed = @ \cup {ch}],
                ChannelNumber(ch))

(* a webhook never answers: axios.post is called without a timeout, the
   await never resumes *)
DispatchUnanswered(h, ch) ==
    [h EXCEPT !.pc = "unanswered", !.attempted = @ \cup {ch}]

(* the INSERT threw and the handler went on to notify *)
InsertFailedGoesOn(h) == RaiseNotify(h, 0)

(* the INSERT threw: the outer catch answers 500 *)
InsertFailed(h) == RaiseRespond(h, 500)

RaiseStart(req, caller) ==
    IF InvalidAlertRequest(req)
    THEN [RaiseIdle EXCEPT !.pc = "done", !.status = 400, !.req = req,
                           !.caller = caller, !.missing = MissingAlertField(req)]
    ELSE [RaiseIdle EXCEPT !.pc = "insert", !.req = req, !.caller = caller,
                           !.missing = MissingAlertField(req)]

RaiseFree == ra.pc \in {"idle", "done"} /\ ra.caller = 0

(* a client other than the ingestion service posts an alert *)
RaiseBegin(req) ==
    /\ RaiseFree
    /\ Len(alerts) < MaxAlerts
    /\ ra' = RaiseStart(req, 0)
    /\ UNCHANGED <<alert_rules, metrics, alerts, configured, ig, evals, rc>>
    /\ UNCHANGED automationVars
    /\ UNCHANGED patchVars

(* an insert that skips a row already stored *)
InsertAlertUnlessPresent(table, row) ==
    IF row \in Range(table) THEN table ELSE Append(table, row)

(* INSERT INTO alerts (...) VALUES (...): a new row with a new id *)
InsertAlert(table, row) == Append(table, row)

RaiseInsert ==
    /\ ra.pc = "insert"
    /\ \/ /\ IsUuid(ra.req.device_id)
          /\ ~ViolatesNotNull(AlertRow(ra.req))
          /\ ~ViolatesForeignKey(AlertRow(ra.req))
          /\ Len(alerts) < MaxAlerts
          /\ alerts' = InsertAlert(alerts, AlertRow(ra.req))
          /\ ra' = RaiseNotify([ra EXCEPT !.row = Len(alerts) + 1], 0)
       \/ /\ ra' = InsertFailed(ra)
          /\ UNCHANGED alerts
    /\ UNCHANGED <<alert_rules, metrics, configured, ig, evals, rc>>
    /\ UNCHANGED automationVars
    /\ UNCHANGED patchVars

RaiseDispatch ==
    /\ ra.pc \in Range(Channels)
    /\ \/ ra' = RaiseNotify([ra EXCEPT !.attempted = @ \cup {ra.pc}], ChannelNumber(ra.pc))
       \/ ra' = DispatchFailed(ra, ra.pc)
       \/ ra' = DispatchUnanswered(ra, ra.pc)
    /\ UNCHANGED <<alert_rules, metrics, alerts, configured, ig, evals, rc>>
    /\ UNCHANGED automationVars
    /\ UNCHANGED patchVars

-----------------------------------------------------------------------------
(* evaluateRules and sendAlert *)

(* the answer turned into an error when the task failed *)
EvaluationFailureAnswered(h, t) ==
    IF t.pc = "failed" THEN [h EXCEPT !.status = 500] ELSE h

(* evaluateRules(device_id, metrics).catch((err) => { console.error(...) }) and
   the catch blocks of evaluateRules and sendAlert only log: the handler's
   answer after task t has stepped *)
AfterEvaluation(h, t) == h

EvalRead(k) ==
    /\ evals[k].pc = "read"
    /\ \/ \E rules \in Orderings(SelectRules) :
            evals' = [evals EXCEPT ![k] = EvalLoop([@ EXCEPT !.rules = rules, !.i = 1])]
       \/ evals' = [evals EXCEPT ![k].pc = "failed"]
    /\ ig' = AfterEvaluation(ig, evals'[k])
    /\ UNCHANGED <<alert_rules, metrics, alerts, configured, ra, rc>>
    /\ UNCHANGED automationVars
    /\ UNCHANGED patchVars

(* axios.post reaches the alert service *)
EvalPost(k) ==
    /\ evals[k].pc = "post"
    /\ RaiseFree
    /\ ra' = RaiseStart(evals[k].sent[Len(evals[k].sent)], k)
    /\ evals' = [evals EXCEPT ![k].pc = "await"]
    /\ UNCHANGED <<alert_rules, metrics, alerts, configured, ig, rc>>
    /\ UNCHANGED automationVars
    /\ UNCHANGED patchVars


(* a failed post that ends the evaluation *)
EvalPostFailsStops(k) ==
    /\ evals[k].pc = "post"
    /\ evals' = [evals EXCEPT ![k].pc = "failed"]
    /\ ig' = AfterEvaluation(ig, evals'[k])
    /\ UNCHANGED <<alert_rules, metrics, alerts, configured, ra, rc>>
    /\ UNCHANGED automationVars
    /\ UNCHANGED patchVars

(* axios.post throws without reaching the alert service: sendAlert's catch *)
EvalPostFails(k) ==
    /\ evals[k].pc = "post"
    /\ evals' = [evals EXCEPT ![k] = EvalLoop([@ EXCEPT !.i = @ + 1])]
    /\ ig' = AfterEvaluation(ig, evals'[k])
    /\ UNCHANGED <<alert_rules, metrics, alerts, configured, ra, rc>>
    /\ UNCHANGED automationVars
    /\ UNCHANGED patchVars

(* the alert service has answered: 2xx resolves, any other status throws into
   sendAlert's catch; the loop goes on either way *)
EvalResume(k) ==
    /\ evals[k].pc = "await"
    /\ ra.pc = "done" /\ ra.caller = k
    /\ ra' = [ra EXCEPT !.caller = 0]
    /\ evals' = [evals EXCEPT ![k] = EvalLoop([@ EXCEPT !.i = @ + 1])]
    /\ ig' = AfterEvaluation(ig, evals'[k])
    /\ UNCHANGED <<alert_rules, metrics, alerts, configured, rc>>
    /\ UNCHANGED automationVars
    /\ UNCHANGED patchVars


-----------------------------------------------------------------------------
(* patch service: the assignments of the agent's device.  A row of
   patch_assignments is kept per patch id; status "absent" stands for no row.
   approvals is history: the number of approvals applied to the row. *)

(* the patches seeded by seedPatches that the model assigns *)
PatchIds == {1, 2}

AgentDevice == "d1"

NoAssignment ==
    [status |-> "absent", schedule_at |-> NullValue, installed_at |-> NullValue,
     error_message |-> NULL, approvals |-> 0]

(* const schedule = schedule_at ? new Date(schedule_at) : null *)
ScheduleOf(schedule_at) ==
    IF schedule_at = Undefined \/ schedule_at = NullValue \/ schedule_at.n = 0
    THEN NullValue ELSE schedule_at

(* pa.schedule_at IS NULL OR pa.schedule_at <= NOW() *)
Due(row) == row.schedule_at = NullValue \/ row.schedule_at.n <= now

(* the first query without its test of the status *)
FetchAnyStatus(deviceId) ==
    IF deviceId # AgentDevice THEN {}
    ELSE {p \in PatchIds : patch_assignments[p].status # "absent"
                           /\ Due(patch_assignments[p])}

(* SELECT pa.patch_id, ... FROM patch_assignments pa JOIN patches p ...
   WHERE pa.device_id = $1 AND pa.status = 'approved'
     AND (pa.schedule_at IS NULL OR pa.schedule_at <= NOW()) *)
FetchAssignments(deviceId) ==
    IF deviceId # AgentDevice THEN {}
    ELSE {p \in PatchIds : patch_assignments[p].status = "approved"
                           /\ Due(patch_assignments[p])}

(* INSERT ... VALUES ($1, $2, $3, 'approved') ON CONFLICT (device_id, patch_id)
   DO UPDATE SET schedule_at = EXCLUDED.schedule_at, status = 'approved' *)
Approved(row, schedule) ==
    IF row.status = "absent"
    THEN [NoAssignment EXCEPT !.status = "approved", !.schedule_at = schedule,
                              !.approvals = 1]
    ELSE [row EXCEPT !.status = "approved", !.schedule_at = schedule,
                     !.approvals = @ + 1]

(* UPDATE patch_assignments SET status = $1,
   installed_at = COALESCE($2, installed_at), error_message = $3 WHERE ...
   with installedAt = status === 'success' ? new Date() : null *)
StatusUpdated(row, status, error_message) ==
    IF row.status = "absent" THEN row
    ELSE [row EXCEPT !.status = status,
                     !.installed_at = IF status = "success" THEN Num(now) ELSE @,
                     !.error_message = error_message]


(* history: the approvals applied so far *)
RECURSIVE ApprovalsOf(_)
ApprovalsOf(S) ==
    IF S = {} THEN 0
    ELSE LET p == CHOOSE q \in S : TRUE
         IN  patch_assignments[p].approvals + ApprovalsOf(S \ {p})

ApprovalsApplied == ApprovalsOf(PatchIds)

(* the body of an approval: device_ids is the agent's device, or empty *)
ApproveRequest(patch_id, device_ids, schedule_at) ==
    [patch_id |-> patch_id, device_ids |-> device_ids, schedule_at |-> schedule_at]

ApproveRequests ==
    { ApproveRequest(p, <<AgentDevice>>, s) : p \in PatchIds, s \in {Undefined, Num(1)} }
    \cup { ApproveRequest(1, <<>>, Undefined) }

(* if (!patch_id || !Array.isArray(device_ids) || device_ids.length === 0) *)
InvalidApproveRequest(req) == req.patch_id = 0 \/ Len(req.device_ids) = 0

(* POST /api/patches/approve: rejected, or the upsert of the one device
   returns or throws *)
Approve(req) ==
    /\ \/ /\ InvalidApproveRequest(req)
          /\ ap' = [status |-> 400]
          /\ UNCHANGED patch_assignments
       \/ /\ ~InvalidApproveRequest(req)
          /\ ApprovalsApplied < MaxApprovals
          /\ patch_assignments' =
                [patch_assignments EXCEPT ![req.patch_id] =
                    Approved(@, ScheduleOf(req.schedule_at))]
          /\ ap' = [status |-> 201]
       \/ /\ ~InvalidApproveRequest(req)
          /\ ap' = [status |-> 500]
          /\ UNCHANGED patch_assignments
    /\ UNCHANGED <<now, deviceID, checks, installs>>
    /\ UNCHANGED automationVars
    /\ UNCHANGED alertVars

(* time passes *)
Tick ==
    /\ now < MaxClock
    /\ now' = now + 1
    /\ UNCHANGED <<patch_assignments, ap, deviceID, checks, installs>>
    /\ UNCHANGED automationVars
    /\ UNCHANGED alertVars


-----------------------------------------------------------------------------
(* agent: the patch ticker of main and the goroutines of checkForPatches.
   A check is one tick of patchTicker: skipped when deviceID was read empty,
   else a goroutine that fetches and then, for each assignment in turn,
   reports in_progress, installs, and reports success.  A slot of checks
   holds one goroutine at a time; its locals go when it returns.  reports
   and installs are history. *)

CheckIdle == [pc |-> "idle", got |-> <<>>, i |-> 0, reports |-> <<>>]

Running(check) ==
    check.pc \in {"fetch", "report_in_progress", "install", "report_success"}

(* the registration goroutine of main: deviceID = id, when registerDevice
   returned an id *)
Register ==
    /\ deviceID = ""
    /\ deviceID' = AgentDevice
    /\ UNCHANGED <<patch_assignments, now, ap, checks, installs>>
    /\ UNCHANGED automationVars
    /\ UNCHANGED alertVars

(* the values a read of deviceID in main's loop can give: main reads the
   variable without synchronisation with the goroutine that writes it *)
DeviceIDRead == {"", deviceID}

(* case <-patchTicker.C: if deviceID != "" { go checkForPatches(deviceID) } *)
PatchTick(c) ==
    /\ ~Running(checks[c])
    /\ \A b \in 1..(c - 1) : Running(checks[b])
    /\ \E id \in DeviceIDRead :
          checks' = [checks EXCEPT ![c].pc = IF id # "" THEN "fetch" ELSE "skipped"]
    /\ UNCHANGED <<patch_assignments, now, ap, deviceID, installs>>
    /\ UNCHANGED automationVars
    /\ UNCHANGED alertVars

(* resp, err := client.Get(fetchURL): an error or an answer that is not 2xx
   ends the check; else the assignments are decoded in the order the service
   returned them *)
CheckFetch(c) ==
    /\ checks[c].pc = "fetch"
    /\ \/ checks' = [checks EXCEPT ![c].pc = "failed"]
       \/ \E got \in Orderings(FetchAssignments(AgentDevice)) :
             checks' = [checks EXCEPT ![c] =
                 [@ EXCEPT !.got = got, !.i = 1,
                           !.pc = IF got = <<>> THEN "done" ELSE "report_in_progress"]]
    /\ UNCHANGED <<patch_assignments, now, ap, deviceID, installs>>
    /\ UNCHANGED automationVars
    /\ UNCHANGED alertVars

(* reportPatchStatus(id, patchId, status, ""): the service applies the UPDATE
   of POST /api/patch-status, or the report is lost (the request fails or the
   service answers an error); the agent goes on either way *)
ReportPatchStatus(c, status, applied) ==
    IF applied
    THEN patch_assignments' =
            [patch_assignments EXCEPT ![checks[c].got[checks[c].i]] =
                StatusUpdated(@, status, "")]
    ELSE UNCHANGED patch_assignments

(* history: the check with the report it has made *)
Reported(check, status, applied) ==
    [check EXCEPT !.reports = Append(@, [patch |-> check.got[check.i],
                                         status |-> status, applied |-> applied])]

ToInstall(check) == [check EXCEPT !.pc = "install"]

(* the end of one turn of the loop over data.Assignments *)
ToNextAssignment(check) ==
    IF check.i < Len(check.got)
    THEN [check EXCEPT !.i = @ + 1, !.pc = "report_in_progress"]
    ELSE [CheckIdle EXCEPT !.pc = "done"]

(* reportPatchStatus(id, asg.PatchID, "in_progress", "") *)
CheckReportInProgress(c) ==
    /\ checks[c].pc = "report_in_progress"
    /\ \E applied \in BOOLEAN :
          /\ ReportPatchStatus(c, "in_progress", applied)
          /\ checks' = [checks EXCEPT ![c] =
                ToInstall(Reported(@, "in_progress", applied))]
    /\ UNCHANGED <<now, ap, deviceID, installs>>
    /\ UNCHANGED automationVars
    /\ UNCHANGED alertVars


(* history: one installation of patch p, carried out when the row had been
   approved that many times; again tells that it had been carried out before
   with no approval since *)
Installation(p, approvals) ==
    [patch |-> p, approvals |-> approvals,
     again |-> \E e \in installs : e.patch = p /\ e.approvals = approvals]

(* fmt.Printf("Installing patch ..."); time.Sleep(5 * time.Second) *)
CheckInstall(c) ==
    /\ checks[c].pc = "install"
    /\ LET p == checks[c].got[checks[c].i] IN
          installs' = installs \cup {Installation(p, patch_assignments[p].approvals)}
    /\ checks' = [checks EXCEPT ![c].pc = "report_success"]
    /\ UNCHANGED <<patch_assignments, now, ap, deviceID>>
    /\ UNCHANGED automationVars
    /\ UNCHANGED alertVars

(* reportPatchStatus(id, asg.PatchID, "success", "") *)
CheckReportSuccess(c) ==
    /\ checks[c].pc = "report_success"
    /\ \E applied \in BOOLEAN :
          /\ ReportPatchStatus(c, "success", applied)
          /\ checks' = [checks EXCEPT ![c] =
                ToNextAssignment(Reported(@, "success", applied))]
    /\ UNCHANGED <<now, ap, deviceID, installs>>
    /\ UNCHANGED automationVars
    /\ UNCHANGED alertVars


(* every call of evaluateRules has ended *)
Evaluated == \A k \in DOMAIN evals : evals[k].pc \in {"done", "failed"}

-----------------------------------------------------------------------------
(* every table empty, every handler idle; no webhook URL set *)
InitQuiet ==
    /\ workflows = {}
    /\ workflow_actions = {}
    /\ workflow_logs = <<>>
    /\ cw = [c \in Creators |-> CreateIdle]
    /\ sb = SubmitIdle
    /\ ts = TestIdle
    /\ requested = <<>>
    /\ complete = {}
    /\ prevTest = NoTest
    /\ alert_rules = {}
    /\ metrics = <<>>
    /\ alerts = <<>>
    /\ configured = {}
    /\ ig = IngestIdle
    /\ evals = <<>>
    /\ ra = RaiseIdle
    /\ rc = [status |-> 0]
    /\ patch_assignments = [p \in PatchIds |-> NoAssignment]
    /\ now = 0
    /\ ap = [status |-> 0]
    /\ deviceID = ""
    /\ checks = [c \in 1..MaxChecks |-> CheckIdle]
    /\ installs = {}

(* Rules being created, samples ingested and evaluated, the alerts of the
   breaches raised; no webhook URL set *)
NextEvaluate ==
    \/ \E req \in RuleRequests : CreateRule(req)
    \/ \E req \in IngestRequests : Ingest(req)
    \/ \E k \in DOMAIN evals : EvalRead(k)
    \/ \E k \in DOMAIN evals : EvalPost(k)
    \/ \E k \in DOMAIN evals : EvalPostFails(k)
    \/ \E k \in DOMAIN evals : EvalResume(k)
    \/ RaiseInsert

SpecEvaluate == InitQuiet /\ [][NextEvaluate]_vars

(* every table empty, every handler idle; any set of webhook URLs set *)
InitRaise ==
    /\ workflows = {}
    /\ workflow_actions = {}
    /\ workflow_logs = <<>>
    /\ cw = [c \in Creators |-> CreateIdle]
    /\ sb = SubmitIdle
    /\ ts = TestIdle
    /\ requested = <<>>
    /\ complete = {}
    /\ prevTest = NoTest
    /\ alert_rules = {}
    /\ metrics = <<>>
    /\ alerts = <<>>
    /\ configured \in SUBSET Range(Channels)
    /\ ig = IngestIdle
    /\ evals = <<>>
    /\ ra = RaiseIdle
    /\ rc = [status |-> 0]
    /\ patch_assignments = [p \in PatchIds |-> NoAssignment]
    /\ now = 0
    /\ ap = [status |-> 0]
    /\ deviceID = ""
    /\ checks = [c \in 1..MaxChecks |-> CheckIdle]
    /\ installs = {}

(* Alerts being raised and notified *)
NextRaise ==
    \/ \E req \in AlertRequests : RaiseBegin(req)
    \/ RaiseInsert
    \/ RaiseDispatch

SpecRaise == InitRaise /\ [][NextRaise]_vars

(* Rules being created and intents raised; no webhook URL set *)
NextRoundTrip ==
    \/ \E req \in RuleRequests : CreateRule(req)
    \/ \E req \in IntentRequests : RaiseBegin(req)
    \/ RaiseInsert

SpecRoundTrip == InitQuiet /\ [][NextRoundTrip]_vars

(* A client that sends one request at a time and reads the answer before
   the next: every handler is idle when a request is sent *)
Quiet ==
    /\ \A c \in Creators : cw[c].pc = "idle"
    /\ sb.pc = "idle"
    /\ ts.pc = "idle"
    /\ ra.pc = "idle"
    /\ ig.status = 0

Answered ==
    /\ \A c \in Creators : cw[c].pc \in {"idle", "done"}
    /\ sb.pc \in {"idle", "done"}
    /\ ts.pc \in {"idle", "done"}
    /\ ra.pc \in {"idle", "done"}

(* the client has read the answer *)
Collect ==
    /\ Answered /\ ~Quiet
    /\ cw' = [c \in Creators |-> CreateIdle]
    /\ sb' = SubmitIdle
    /\ ts' = TestIdle
    /\ ra' = RaiseIdle
    /\ ig' = IngestIdle
    /\ UNCHANGED <<workflows, workflow_actions, workflow_logs, requested, complete,
                   prevTest, alert_rules, metrics, alerts, configured, evals, rc>>
    /\ UNCHANGED patchVars

ClientWorkflowRequests ==
    InvalidWorkflowRequests
    \cup {WorkflowRequest("disk_full", NULL, <<RebootUniverse, RunScript>>, TRUE)}

ClientEvents == {Event("disk_full", "d1"), Event(NULL, "d1")}

ClientTestRequests ==
    {[workflow_id |-> w, test_event |-> MissingEvent] : w \in 0..1}

ClientIngestRequests == IngestRequests \ {r \in IngestRequests : r.metrics \in
                                             SampleMetrics \ {GoodSample.metrics}}

NextClient ==
    \/ \E req \in ClientIngestRequests : Quiet /\ Ingest(req)
    \/ \E req \in AlertRequests : Quiet /\ RaiseBegin(req)
    \/ RaiseInsert
    \/ RaiseDispatch
    \/ \E req \in ClientWorkflowRequests : Quiet /\ CreateBegin("c1", req)
    \/ CreateInsertWorkflow("c1")
    \/ CreateInsertAction("c1")
    \/ CreateInsertFails("c1")
    \/ CreateTestStep("c1")
    \/ \E event \in ClientEvents : Quiet /\ SubmitBegin(event)
    \/ SubmitSelect
    \/ SubmitExecStep
    \/ \E req \in ClientTestRequests : Quiet /\ TestBegin(req)
    \/ TestExecStep
    \/ Collect

(* every table empty, every handler idle; every webhook URL set *)
InitClient ==
    /\ workflows = {}
    /\ workflow_actions = {}
    /\ workflow_logs = <<>>
    /\ cw = [c \in Creators |-> CreateIdle]
    /\ sb = SubmitIdle
    /\ ts = TestIdle
    /\ requested = <<>>
    /\ complete = {}
    /\ prevTest = NoTest
    /\ alert_rules = {}
    /\ metrics = <<>>
    /\ alerts = <<>>
    /\ configured = Range(Channels)
    /\ ig = IngestIdle
    /\ evals = <<>>
    /\ ra = RaiseIdle
    /\ rc = [status |-> 0]
    /\ patch_assignments = [p \in PatchIds |-> NoAssignment]
    /\ now = 0
    /\ ap = [status |-> 0]
    /\ deviceID = ""
    /\ checks = [c \in 1..MaxChecks |-> CheckIdle]
    /\ installs = {}

SpecClient == InitClient /\ [][NextClient]_vars

(* One client creating workflows, events being submitted *)
NextWorkflows ==
    \/ \E req \in WorkflowRequests : CreateBegin("c1", req)
    \/ CreateInsertWorkflow("c1")
    \/ CreateInsertAction("c1")
    \/ CreateInsertFails("c1")
    \/ CreateTestStep("c1")
    \/ \E event \in Events : SubmitBegin(event)
    \/ SubmitSelect
    \/ SubmitExecStep

SpecWorkflows == InitQuiet /\ [][NextWorkflows]_vars

(* Two clients creating workflows concurrently, events being submitted *)
NextConcurrentCreate ==
    \/ \E c \in Creators : \E req \in Repertoire(c) : CreateBegin(c, req)
    \/ \E c \in Creators : CreateInsertWorkflow(c)
    \/ \E c \in Creators : CreateInsertAction(c)
    \/ \E c \in Creators : CreateInsertFails(c)
    \/ \E c \in Creators : CreateTestStep(c)
    \/ \E event \in Events : SubmitBegin(event)
    \/ SubmitSelect
    \/ SubmitExecStep

SpecConcurrentCreate == InitQuiet /\ [][NextConcurrentCreate]_vars

(* One client creating workflows, workflows being tested *)
(* One client creating workflows with and without a dry run, events being
   submitted *)
NextCreate ==
    \/ \E req \in DryRunRequests : CreateBegin("c1", req)
    \/ CreateInsertWorkflow("c1")
    \/ CreateInsertAction("c1")
    \/ CreateInsertFails("c1")
    \/ CreateTestStep("c1")
    \/ \E event \in ClientEvents : SubmitBegin(event)
    \/ SubmitSelect
    \/ SubmitExecStep

SpecCreate == InitQuiet /\ [][NextCreate]_vars

NextTest ==
    \/ \E req \in WorkflowRequests : CreateBegin("c1", req)
    \/ CreateInsertWorkflow("c1")
    \/ CreateInsertAction("c1")
    \/ CreateInsertFails("c1")
    \/ CreateTestStep("c1")
    \/ \E req \in TestRequests : TestBegin(req)
    \/ TestExecStep

SpecTest == InitQuiet /\ [][NextTest]_vars

-----------------------------------------------------------------------------
(* Properties of the automation service *)

IsPrefix(s, t) == Len(s) <= Len(t) /\ \A i \in DOMAIN s : s[i] = t[i]

Recognized(action_type) == action_type \in KnownActionTypes

TriggerOf(id) == (CHOOSE w \in workflows : w.id = id).event_type

(* the action list workflow id was created with; none for an id never used *)
DefinedActions(id) == IF id \in DOMAIN requested THEN requested[id] ELSE <<>>

(* the outcomes of the defined actions, in the order of their definition *)
Outcomes(id, event, testMode) ==
    [i \in 1..Len(DefinedActions(id)) |-> doAction(DefinedActions(id)[i], event, testMode)]

(* the workflows stored when submit's SELECT ran whose trigger is the event's type *)
MatchingWorkflows ==
    {w.id : w \in {x \in workflows :
                     x.id \in sb.seen /\ x.event_type = sb.event.event_type}}

(* C2: submit(E) executes exactly the workflows whose trigger event type is
   E.event_type, each once: what it executes, answers and logs are workflows
   of that type only, and its 202 answer lists each workflow of that type
   that was stored when it read the table exactly once, with processed the
   number of them. *)
SubmitExecutesMatchingWorkflows ==
    /\ \A i \in DOMAIN sb.results :
          TriggerOf(sb.results[i].workflow_id) = sb.event.event_type
    /\ sb.ex.pc # "none" => TriggerOf(sb.ex.workflowId) = sb.event.event_type
    /\ \A i \in DOMAIN workflow_logs :
          TriggerOf(workflow_logs[i].workflow_id) = workflow_logs[i].event_data.event_type
    /\ \A i, j \in DOMAIN sb.results :
          i # j => sb.results[i].workflow_id # sb.results[j].workflow_id
    /\ (sb.pc = "done" /\ sb.status = 202) =>
          /\ {r.workflow_id : r \in Range(sb.results)} = MatchingWorkflows
          /\ sb.processed = Cardinality(MatchingWorkflows)
          /\ Len(sb.results) = sb.processed

(* a submit answered 202 and logged while a workflow of another type was stored *)
SubmitSkippedOtherType ==
    /\ sb.pc = "done" /\ sb.status = 202 /\ sb.processed >= 1
    /\ Len(workflow_logs) >= 1
    /\ \E w \in workflows : w.id \in sb.seen /\ w.event_type # sb.event.event_type

(* what a call of executeWorkflow has collected is the outcomes of the
   first defined actions, and of all of them once the loop has ended, when
   the workflow's creation had inserted all its actions before the call read them *)
CallInOrder(ex) ==
    /\ IsPrefix(ex.results, Outcomes(ex.workflowId, ex.event, ex.testMode))
    /\ (ex.whole /\ ex.pc \in {"log", "returned"}) =>
          ex.results = Outcomes(ex.workflowId, ex.event, ex.testMode)

ResultInOrder(id, event, result, whole, testMode) ==
    /\ IsPrefix(result, Outcomes(id, event, testMode))
    /\ whole => result = Outcomes(id, event, testMode)

(* C3: every execution, by submit or in test mode, of a workflow created
   with actions A1..An returns and records the n outcomes of A1..An in that
   order, whatever their status and whatever other workflows are created
   meanwhile.  (An execution that reads the actions before the creation has
   inserted them all returns the outcomes of the first of them, in order.) *)
OutcomesInDefinitionOrder ==
    /\ \A c \in Creators :
          /\ CallInOrder(cw[c].ex)
          /\ (cw[c].pc = "done" /\ cw[c].tested) =>
                cw[c].test_result = Outcomes(cw[c].workflowId, cw[c].test_event, TRUE)
    /\ CallInOrder(sb.ex)
    /\ \A i \in DOMAIN sb.results :
          ResultInOrder(sb.results[i].workflow_id, sb.event, sb.results[i].result,
                        sb.results[i].whole, FALSE)
    /\ CallInOrder(ts.ex)
    /\ (ts.pc = "done" /\ ts.status = 200) =>
          ResultInOrder(ts.workflowId, ts.event, ts.result, ts.whole, TRUE)
    /\ \A i \in DOMAIN workflow_logs :
          IsPrefix(workflow_logs[i].result,
                   Outcomes(workflow_logs[i].workflow_id, workflow_logs[i].event_data, FALSE))

(* a two-action workflow whose action rows are separated by another
   workflow's row was executed whole and logged *)
InterleavedWorkflowExecuted ==
    \E i \in DOMAIN sb.results :
        /\ sb.results[i].whole
        /\ Len(sb.results[i].result) = 2
        /\ \E a, b \in workflow_actions :
              /\ a.workflow_id = sb.results[i].workflow_id
              /\ b.workflow_id = sb.results[i].workflow_id
              /\ b.id > a.id + 1
        /\ \E j \in DOMAIN workflow_logs :
              workflow_logs[j] = LogRow(sb.results[i].workflow_id, sb.event,
                                        sb.results[i].result)

(* submit's current execution returns in this step *)
ExecutionReturns == sb.pc = "exec" /\ Len(sb'.results) = Len(sb.results) + 1

(* C4: a non-test execution that returns appends exactly one workflow_logs
   row, in the step that ends it and so after all its actions have run; the
   row holds the workflow id, the submitted event and the outcome list
   returned to the caller; nothing else appends to workflow_logs, and the
   handler's event is the submitted one throughout. *)
ExecutionLogsOneRow ==
    [][ /\ ExecutionReturns =>
            /\ sb.ex.pc = "log"
            /\ Len(sb.ex.results) = Len(sb.ex.actions)
            /\ sb'.results[Len(sb'.results)].workflow_id = sb.ex.workflowId
            /\ sb'.results[Len(sb'.results)].result = sb.ex.results
            /\ workflow_logs' =
                  Append(workflow_logs,
                         [workflow_id |-> sb.ex.workflowId, event_data |-> sb.event,
                          result |-> sb'.results[Len(sb'.results)].result])
        /\ workflow_logs' # workflow_logs => ExecutionReturns
        /\ sb.pc \in {"select", "exec"} => sb'.event = sb.event
      ]_vars

(* a two-action execution was logged and returned *)
TwoOutcomesLogged ==
    /\ sb.results # <<>>
    /\ workflow_logs # <<>>
    /\ Len(workflow_logs[Len(workflow_logs)].result) = 2
    /\ workflow_logs[Len(workflow_logs)] =
          LogRow(sb.results[Len(sb.results)].workflow_id, sb.event,
                 sb.results[Len(sb.results)].result)

(* a step of an execution in test mode *)
TestModeStep ==
    \/ ts' # ts
    \/ \E c \in Creators : cw[c].pc = "test" /\ cw'[c] # cw[c]

(* C5: test never writes a workflow_logs row (no step of a test call or of
   the inline test at creation changes the table), and two test calls of the
   same created workflow with the same event return the same outcome list. *)
TestIsIdempotent ==
    /\ [] ( ( /\ ts.pc = "done" /\ ts.status = 200
              /\ prevTest.pc = "done"
              /\ ts.workflowId = prevTest.workflowId
              /\ ts.event = prevTest.event
              /\ ts.whole /\ prevTest.whole )
            => ts.result = prevTest.result )
    /\ [][TestModeStep => workflow_logs' = workflow_logs]_vars

(* two test calls of one two-action workflow with one event have returned *)
TestedTwice ==
    /\ ts.pc = "done" /\ ts.status = 200
    /\ prevTest.pc = "done"
    /\ ts.workflowId = prevTest.workflowId
    /\ ts.event = prevTest.event
    /\ ts.whole /\ prevTest.whole
    /\ Len(ts.result) = 2
    /\ workflow_logs = <<>>

(* the outcomes collected for the actions read: unknown exactly for the
   unrecognized kinds, and one for every action once the loop has ended *)
CallRecordsUnknown(ex) ==
    /\ \A i \in DOMAIN ex.results :
          /\ ex.results[i].action = ex.actions[i].action_type
          /\ ex.results[i].status = "unknown" <=> ~Recognized(ex.actions[i].action_type)
    /\ ex.pc \in {"log", "returned"} => Len(ex.results) = Len(ex.actions)

(* C6: an action of an unrecognized kind gets the outcome status unknown,
   the remaining actions of the workflow are still executed, and the log
   row of a non-test execution is still written. *)
UnknownActionDoesNotStopWorkflow ==
    /\ CallRecordsUnknown(sb.ex)
    /\ \A c \in Creators : CallRecordsUnknown(cw[c].ex)
    /\ \A c \in Creators :
          (cw[c].pc = "done" /\ cw[c].tested) =>
             /\ Len(cw[c].test_result) = Len(DefinedActions(cw[c].workflowId))
             /\ \A i \in DOMAIN cw[c].test_result :
                   cw[c].test_result[i].status = "unknown"
                      <=> ~Recognized(DefinedActions(cw[c].workflowId)[i].action_type)
    /\ \A i \in DOMAIN sb.results :
          \E j \in DOMAIN workflow_logs :
             workflow_logs[j] = LogRow(sb.results[i].workflow_id, sb.event,
                                       sb.results[i].result)
    /\ \A j \in DOMAIN workflow_logs :
          \A k \in DOMAIN workflow_logs[j].result :
             workflow_logs[j].result[k].status = "unknown"
                <=> ~Recognized(workflow_logs[j].result[k].action)

(* an unknown action followed by a successful one was returned and logged *)
UnknownThenSuccessLogged ==
    \E i \in DOMAIN sb.results :
        /\ Len(sb.results[i].result) = 2
        /\ sb.results[i].result[1].status = "unknown"
        /\ sb.results[i].result[2].status = "success"
        /\ \E j \in DOMAIN workflow_logs :
              workflow_logs[j].result = sb.results[i].result

-----------------------------------------------------------------------------
(* Rule evaluation *)

(* the rules of a task's snapshot that its sample breaches: the sample has a
   number for the rule's metric, strictly above the threshold of a gt rule or
   strictly below the threshold of an lt rule *)
BreachedRules(t) ==
    { r \in Range(t.rules) :
        LET v == Lookup(t.metrics, r.metric)
        IN  /\ v # Undefined /\ v # NullValue
            /\ \/ r.comparison = "gt" /\ v.n > r.threshold.n
               \/ r.comparison = "lt" /\ v.n < r.threshold.n }

(* C1: an evaluation that read its rules raises an alert for a rule exactly
   when the sample holds a value for the rule's metric and the value is
   strictly beyond the threshold in the rule's direction, once per such rule
   and with the value of the sample; a value equal to the threshold, an
   absent or null metric and an empty rule set raise nothing. *)
EvaluationRaisesExactlyBreaches ==
    \A k \in DOMAIN evals :
        LET t == evals[k]
        IN  /\ \A j \in DOMAIN t.sent :
                  \E r \in BreachedRules(t) :
                      /\ t.sent[j].rule_id = r.id
                      /\ t.sent[j].metric = r.metric
                      /\ t.sent[j].threshold = r.threshold
                      /\ t.sent[j].value = Lookup(t.metrics, r.metric)
                      /\ t.sent[j].device_id = t.deviceId
            /\ \A i, j \in DOMAIN t.sent :
                  t.sent[i].rule_id = t.sent[j].rule_id => i = j
            /\ t.pc = "done" =>
                  {t.sent[j].rule_id : j \in DOMAIN t.sent}
                     = {r.id : r \in BreachedRules(t)}

(* an evaluation over two rules has ended: one rule was breached and raised,
   the other, whose threshold the sample equals, was not *)
BreachRaisedEqualNot ==
    \E k \in DOMAIN evals :
        LET t == evals[k]
        IN  /\ t.pc = "done"
            /\ Len(t.sent) = 1
            /\ \E r \in Range(t.rules) :
                  /\ r.id # t.sent[1].rule_id
                  /\ Lookup(t.metrics, r.metric) = r.threshold

-----------------------------------------------------------------------------
(* Raising an alert *)

RaisePersisted ==
    /\ ra.row \in DOMAIN alerts
    /\ alerts[ra.row] = AlertRow(ra.req)

(* C7: once the alert row is inserted, every configured channel is attempted
   whatever the outcome of the others, the request is answered 202 and the
   row stays as inserted. *)
ChannelFailuresAreIndependent ==
    /\ ra.failed \subseteq ra.attempted
    /\ ra.attempted \subseteq configured
    /\ (ra.pc = "done" /\ ra.row # 0) =>
          /\ ra.attempted = configured
          /\ ra.status = 202
          /\ RaisePersisted

(* all three channels attempted, the first failed, a later one did not *)
LaterChannelsAfterFailure ==
    /\ ra.pc = "done"
    /\ ra.attempted = Range(Channels)
    /\ "email" \in ra.failed
    /\ ra.failed # ra.attempted
    /\ RaisePersisted

(* C8: a channel is posted to only after the alert row is stored, and a
   request whose insert failed posts to no channel. *)
NoDispatchBeforePersist ==
    /\ (ra.pc \in Range(Channels) \/ ra.attempted # {}) => RaisePersisted
    /\ (ra.pc = "done" /\ ra.status = 500) => ra.attempted = {} /\ ra.row = 0

(* a channel has been posted to *)
DispatchedAfterInsert ==
    /\ ra.attempted # {}
    /\ ra.pc \in Range(Channels)
    /\ RaisePersisted

-----------------------------------------------------------------------------
(* Success and rejection *)

(* C9: ingest answers 202 only with its metrics row stored, raise answers 202
   only with its alerts row stored, submit answers 202 only with one
   workflow_logs row stored for each execution it reports. *)
SuccessMeansPersisted ==
    /\ ig.status = 202 =>
          /\ ig.row \in DOMAIN metrics
          /\ metrics[ig.row] = MetricsRow(ig.req)
    /\ (ra.pc = "done" /\ ra.status = 202) => RaisePersisted
    /\ (sb.pc = "done" /\ sb.status = 202) =>
          /\ \A i \in DOMAIN sb.results :
                /\ sb.results[i].row \in DOMAIN workflow_logs
                /\ workflow_logs[sb.results[i].row] =
                      LogRow(sb.results[i].workflow_id, sb.event, sb.results[i].result)
          /\ \A i, j \in DOMAIN sb.results :
                sb.results[i].row = sb.results[j].row => i = j

(* raise answered 202 although the post to every channel failed *)
AcceptedThoughAllDispatchesFailed ==
    /\ ra.pc = "done" /\ ra.status = 202
    /\ configured = Range(Channels)
    /\ ra.failed = configured
    /\ RaisePersisted

Stores == <<workflows, workflow_actions, workflow_logs, alert_rules, metrics, alerts>>

(* a step in which a handler takes a request that lacks a required field *)
TakesIncompleteRequest ==
    \/ ig' # ig /\ ig'.missing
    \/ ra' # ra /\ ra'.missing
    \/ sb' # sb /\ sb'.missing
    \/ ts' # ts /\ ts'.missing
    \/ \E c \in Creators : cw'[c] # cw[c] /\ cw'[c].missing

(* C10: ingest, raise, workflow creation, submit and test answer a request
   that lacks a required field with 400, in a step that changes no table and
   starts no evaluation, dispatch or execution. *)
IncompleteRequestsAreRejected ==
    /\ [] /\ ig.missing => ig.status = 400 /\ ig.row = 0 /\ ig.task = 0
          /\ ra.missing => /\ ra.pc = "done" /\ ra.status = 400
                           /\ ra.row = 0 /\ ra.attempted = {}
          /\ sb.missing => /\ sb.pc = "done" /\ sb.status = 400
                           /\ sb.results = <<>> /\ sb.ex = NoCall
          /\ ts.missing => /\ ts.pc = "done" /\ ts.status = 400
                           /\ ts.result = <<>> /\ ts.ex = NoCall
          /\ \A c \in Creators :
                cw[c].missing => /\ cw[c].pc = "done" /\ cw[c].status = 400
                                 /\ cw[c].workflowId = 0 /\ cw[c].ex = NoCall
    /\ [][TakesIncompleteRequest => /\ Stores' = Stores
                                    /\ evals' = evals
                                    /\ requested' = requested]_vars

(* an ingest request without a timestamp has been rejected *)
IngestWithoutTimestampRejected ==
    /\ ig.missing
    /\ ig.req.timestamp = NULL
    /\ ig.req.device_id # NULL
    /\ ig.req.metrics # MissingMetrics
    /\ ig.status = 400

-----------------------------------------------------------------------------
(* Ingestion and its evaluation *)

(* C11: the step that stores the metrics row answers 202 at once, with the
   evaluation of the sample only started (its rule-set read still pending);
   nothing the evaluation does later is waited for. *)
IngestAnswersBeforeEvaluation ==
    [][Len(metrics') > Len(metrics) =>
          /\ ig'.status = 202
          /\ ig'.row = Len(metrics')
          /\ ig'.task \in DOMAIN evals' \ DOMAIN evals
          /\ evals'[ig'.task].pc = "read"
          /\ evals'[ig'.task].sent = <<>>]_vars

(* ingest has answered 202 and the rules of its evaluation are not read yet *)
AcceptedWhileEvaluationPending ==
    /\ ig.status = 202
    /\ ig.row \in DOMAIN metrics
    /\ alert_rules # {}
    /\ evals[ig.task].pc = "read"

(* a step of an evaluation task that was already started *)
EvaluationStep ==
    \E k \in DOMAIN evals : evals'[k] # evals[k]

(* C12: no step of an evaluation, failed or not, changes the answer of the
   ingest call that started it or the metrics table: the answer stays 202 and
   the row stays. *)
EvaluationFailureLeavesIngest ==
    /\ [] (ig.status = 202 => /\ ig.row \in DOMAIN metrics
                              /\ metrics[ig.row] = MetricsRow(ig.req))
    /\ [][EvaluationStep => ig' = ig /\ metrics' = metrics]_vars

(* the rule-set read of the evaluation failed after ingest answered 202 *)
EvaluationFailedAfterAccept ==
    /\ ig.status = 202
    /\ ig.row \in DOMAIN metrics
    /\ evals[ig.task].pc = "failed"

(* the alerts rows that hold a payload *)
RowsOf(payload) == {i \in DOMAIN alerts : alerts[i] = AlertRow(payload)}

(* C13: when an evaluation has ended, every breach it detected (every payload
   it gave to sendAlert) has exactly one alerts row, whatever became of the
   post to the alert service. *)
EveryBreachPersistedOnce ==
    \A k \in DOMAIN evals :
        evals[k].pc = "done" =>
            \A j \in DOMAIN evals[k].sent :
                Cardinality(RowsOf(evals[k].sent[j])) = 1

-----------------------------------------------------------------------------
(* The alerts table *)

(* C14: every raise whose insert succeeds adds one new alerts row holding its
   intent, whether or not an equal row is already stored; no step removes or
   changes a row. *)
RaiseNeverDeduplicates ==
    /\ [][(ra.pc = "insert" /\ ra'.status # 500) =>
             /\ Len(alerts') = Len(alerts) + 1
             /\ alerts'[Len(alerts')] = AlertRow(ra.req)]_vars
    /\ [][IsPrefix(alerts, alerts')]_vars

(* two accepted raise calls with the same intent have left two rows *)
TwoEqualAlertsStored ==
    /\ Len(alerts) = 2
    /\ alerts[1] = alerts[2]
    /\ ra.pc = "done" /\ ra.status = 202 /\ ra.row = 2

-----------------------------------------------------------------------------
(* The answer of raise and the dispatches *)

(* C15: raise has answered as soon as its row is stored: in no state is the
   row stored and the answer still to come while a channel is posted to. *)
RaiseAnswersOncePersisted ==
    ra.row # 0 => ra.pc = "done"

(* C16: no channel waits on another: while the post to one channel is
   pending, the post to every other configured channel has been made. *)
NoChannelWaitsOnAnother ==
    ra.pc \in Range(Channels) =>
        \A ch \in configured \ {ra.pc} : ch \in ra.attempted

(* C17: when raise has answered 202 for a stored alert, the workflow engine
   has been handed an event for it: with a client that sends one request at a
   time, POST /api/events is then at work on an event the client did not
   send. *)
AlertEventReachesEngine ==
    (ra.pc = "done" /\ ra.status = 202 /\ RaisePersisted) => sb.pc # "idle"

(* C18: a raise whose row is stored always gets to its answer: as long as it
   has not answered, the handler has a step to take, a channel that does not
   answer being given up like one that failed. *)
RaiseReturnsThoughChannelSilent ==
    (ra.row # 0 /\ ra.pc # "done") => ENABLED RaiseDispatch

-----------------------------------------------------------------------------
(* Round trip of an intent *)

(* the fields of a listed alert other than the device id equal the intent's,
   an absent optional field being null *)
SameValueFields(alert, intent) ==
    /\ alert.metric = intent.metric
    /\ alert.value = intent.value
    /\ alert.threshold = intent.threshold
    /\ alert.rule_id = intent.rule_id
    /\ alert.suggestion = intent.suggestion
    /\ alert.description = intent.description

RaiseAccepted == ra.pc = "done" /\ ra.status = 202

(* C19 as stated: after an accepted raise the list holds an alert whose
   device_id and other fields equal the intent's. *)
ListedAlertEqualsIntent ==
    RaiseAccepted =>
        /\ ra.row \in DOMAIN ListAlerts
        /\ ListAlerts[ra.row].device_id = ra.req.device_id
        /\ SameValueFields(ListAlerts[ra.row], ra.req)

(* C19 amended: after an accepted raise the list holds an alert whose metric,
   value, threshold, rule id, suggestion and description equal the intent's
   and whose device_id is the intent's UUID written in lower case. *)
ListedAlertMatchesIntent ==
    RaiseAccepted =>
        /\ ra.row \in DOMAIN ListAlerts
        /\ ListAlerts[ra.row].device_id \in {"d1"}
        /\ ra.req.device_id \in {"d1", "D1"}
        /\ SameValueFields(ListAlerts[ra.row], ra.req)

(* an intent with rule id, suggestion and description was accepted and is
   listed *)
FullIntentListed ==
    /\ RaiseAccepted
    /\ ra.req.rule_id # 0 /\ ra.req.suggestion # NULL /\ ra.req.description # NULL
    /\ ra.row \in DOMAIN ListAlerts

-----------------------------------------------------------------------------
(* The answer of workflow creation *)

Created(c) == cw[c].pc = "done" /\ cw[c].status = 201

(* the outcome list of workflow id executed on event in test mode *)
DryRun(c, event) ==
    /\ cw[c].tested
    /\ cw[c].test_event = event
    /\ cw[c].test_result = Outcomes(cw[c].workflowId, event, TRUE)

(* C20 as stated: a creation answered 201 returns the id of the new workflow
   and, whenever the body held a test_event, the dry-run outcome list of the
   new workflow on that event. *)
CreationReturnsDryRunOfSuppliedEvent ==
    \A c \in Creators :
        Created(c) =>
            /\ cw[c].workflowId \in {w.id : w \in workflows}
            /\ cw[c].supplied # MissingEvent => DryRun(c, cw[c].supplied)

(* C20 amended: a creation answered 201 returns the id of the new workflow
   and, exactly when the body's test flag is set, the dry-run outcome list of
   the new workflow, on the body's test_event or, without one, on
   { event_type, test: true }; no step of a creation writes a log row. *)
CreationReturnsDryRunWhenAsked ==
    /\ [] \A c \in Creators :
            Created(c) =>
                /\ cw[c].workflowId \in {w.id : w \in workflows}
                /\ cw[c].asked =>
                      DryRun(c, IF cw[c].supplied # MissingEvent THEN cw[c].supplied
                                ELSE [event_type |-> TriggerOf(cw[c].workflowId),
                                      device_id |-> NULL, test |-> TRUE])
                /\ ~cw[c].asked => ~cw[c].tested /\ cw[c].test_result = <<>>
    /\ [][(\E c \in Creators : cw'[c] # cw[c]) => workflow_logs' = workflow_logs]_vars

(* a creation with a test_event and without the test flag was answered 201
   without a dry run *)
CreatedWithEventNotTested ==
    /\ Created("c1")
    /\ cw["c1"].supplied # MissingEvent
    /\ ~cw["c1"].asked
    /\ ~cw["c1"].tested

-----------------------------------------------------------------------------
(* The action executor on every kind of action: one-action workflows are
   created and dry-run. *)

NextExecutor ==
    \/ \E req \in ExecutorRequests : CreateBegin("c1", req)
    \/ CreateInsertWorkflow("c1")
    \/ CreateInsertAction("c1")
    \/ CreateInsertFails("c1")
    \/ CreateTestStep("c1")

SpecExecutor == InitQuiet /\ [][NextExecutor]_vars

(* the kinds the executor is said to carry out *)
KindsThatSucceed ==
    {"run_script", "restart_service", "isolate_device", "notify",
     "send_notification", "create_ticket"}

(* outcome r is the one due for an action of that kind *)
OutcomeFits(kind, r) ==
    /\ r.action = kind
    /\ r.status = IF kind \in KindsThatSucceed THEN "success" ELSE "unknown"

(* C21: for every action kind, parameters and event the executor returns an
   outcome and never raises: the outcome carries the action's kind, and its
   status is success exactly for run_script, restart_service, isolate_device,
   notify, send_notification and create_ticket, unknown for any other kind.
   An iteration of the loop adds one outcome and never ends the call with an
   exception. *)
ExecutorTotalOnEveryKind ==
    /\ [] \A c \in Creators :
            /\ \A i \in DOMAIN cw[c].ex.results :
                  OutcomeFits(cw[c].ex.actions[i].action_type, cw[c].ex.results[i])
            /\ (Created(c) /\ cw[c].tested) =>
                  /\ Len(cw[c].test_result) = Len(DefinedActions(cw[c].workflowId))
                  /\ \A i \in DOMAIN cw[c].test_result :
                        OutcomeFits(DefinedActions(cw[c].workflowId)[i].action_type,
                                    cw[c].test_result[i])
    /\ [][\A c \in Creators :
            (cw[c].pc = "test" /\ cw[c].ex.pc = "actions") =>
                /\ cw'[c].status # 500
                /\ Len(cw'[c].ex.results) + Len(cw'[c].test_result)
                      = Len(cw[c].ex.results) + 1]_vars

(* a dry run answered the outcome success for send_notification while a
   workflow whose action differs from a known kind by case only is stored *)
AliasSucceededOtherCaseStored ==
    /\ Created("c1") /\ cw["c1"].tested
    /\ cw["c1"].test_result[1].action = "send_notification"
    /\ cw["c1"].test_result[1].status = "success"
    /\ \E a \in workflow_actions :
          a.action_type = "RUN_SCRIPT" /\ a.workflow_id # cw["c1"].workflowId

-----------------------------------------------------------------------------
(* Samples ingested once the evaluations of the earlier ones have ended,
   rules being created meanwhile.  The alert service is not reached: each
   post throws into sendAlert's catch, after which the loop goes on as it
   does after an answered post. *)

NextReevaluate ==
    \/ \E req \in RepeatedRuleRequests : CreateRule(req)
    \/ \E req \in RepeatedIngestRequests : Evaluated /\ IngestUpTo(req, MaxEvaluated)
    \/ \E k \in DOMAIN evals : EvalRead(k)
    \/ \E k \in DOMAIN evals : EvalPostFails(k)

SpecReevaluate == InitQuiet /\ [][NextReevaluate]_vars

(* the sample stored in a row of metrics: all of it but the timestamp *)
SampleOf(row) ==
    [device_id |-> row.device_id, cpu |-> row.cpu, memory |-> row.memory,
     disk |-> row.disk, network |-> row.network]

(* the evaluations of the samples stored as rows j and k have ended, the
   samples are the same and the evaluations read the same rules *)
SameEvaluation(j, k) ==
    /\ evals[j].pc = "done" /\ evals[k].pc = "done"
    /\ SampleOf(metrics[j]) = SampleOf(metrics[k])
    /\ Range(evals[j].rules) = Range(evals[k].rules)

(* C22: the alerts raised for a sample depend only on the sample and on the
   rule set read by its evaluation: two evaluations of the same sample against
   the same rule set give the same intents (in the same order when the rules
   were read in the same order), whatever was evaluated before and whatever
   the timestamps; and no step of an evaluation writes to the rule store or
   to the metrics store. *)
EvaluationDependsOnSampleAndRules ==
    /\ [] \A j, k \in DOMAIN evals :
            SameEvaluation(j, k) =>
                /\ Range(evals[j].sent) = Range(evals[k].sent)
                /\ evals[j].rules = evals[k].rules => evals[j].sent = evals[k].sent
    /\ [][(evals' # evals /\ Len(evals') = Len(evals)) =>
              (alert_rules' = alert_rules /\ metrics' = metrics)]_vars

(* a sample was evaluated after the same metrics with a later timestamp,
   against the same two rules read in another order, and each evaluation
   raised two intents *)
SameSampleEvaluatedTwice ==
    /\ Len(evals) = 2 /\ SameEvaluation(1, 2)
    /\ metrics[1].timestamp = "t1" /\ metrics[2].timestamp = "t0"
    /\ evals[1].rules # evals[2].rules
    /\ Len(evals[1].sent) = 2 /\ Len(evals[2].sent) = 2

-----------------------------------------------------------------------------
(* Rules on every metric being created, a sample that breaches them ingested
   once the evaluations of the earlier ones have ended, the alerts raised; no
   webhook URL set *)

NextIntents ==
    \/ \E req \in BreachedRuleRequests : CreateRule(req)
    \/ Evaluated /\ Ingest(FullSample)
    \/ \E k \in DOMAIN evals : EvalRead(k)
    \/ \E k \in DOMAIN evals : EvalPost(k)
    \/ \E k \in DOMAIN evals : EvalPostFails(k)
    \/ \E k \in DOMAIN evals : EvalResume(k)
    \/ RaiseInsert

SpecIntents == InitQuiet /\ [][NextIntents]_vars

(* the suggestions due for a rule without one of its own *)
MetricsWithDefault == {"cpu", "memory", "disk", "latency"}

DefaultSuggestionOf(metric) ==
    CASE metric = "cpu" ->
           "Investigate high CPU usage by reviewing running processes and workloads."
      [] metric = "memory" ->
           "Analyse memory consumption and optimise applications to reduce usage."
      [] metric = "disk" ->
           "Check disk utilisation; free up space or expand storage as required."
      [] metric = "latency" ->
           "Investigate network latency; verify connectivity and reduce load."

GenericSuggestion == "Investigate the alert condition and take appropriate action."

(* intent p of task t is built from the sample and from stored rule r *)
IntentBuiltFrom(p, t, r) ==
    /\ p.rule_id = r.id
    /\ p.device_id = t.deviceId
    /\ p.metric = r.metric
    /\ p.value = t.metrics[r.metric]
    /\ p.threshold = r.threshold
    /\ p.suggestion =
          IF r.suggestion # NULL THEN r.suggestion
          ELSE IF r.metric \in MetricsWithDefault THEN DefaultSuggestionOf(r.metric)
          ELSE GenericSuggestion
    /\ p.description =
          IF r.description # NULL THEN r.description
          ELSE "Metric " \o r.metric \o " " \o r.comparison \o " threshold "
               \o ToString(r.threshold.n)

(* C23: every intent carries the rule's own suggestion when the rule has
   one, otherwise the default of the rule's metric (cpu, memory, disk,
   latency), otherwise the generic fallback; the rule's own description when
   it has one, otherwise the text synthesized from metric, comparison and
   threshold; and the device id and value of the sample and the metric,
   threshold and id of the breached rule. *)
IntentCarriesResolvedTexts ==
    \A k \in DOMAIN evals : \A i \in DOMAIN evals[k].sent :
        \E r \in alert_rules : IntentBuiltFrom(evals[k].sent[i], evals[k], r)

(* one evaluation raised an intent for a rule on latency and one for a rule
   on network, neither rule with a suggestion of its own *)
LatencyAndFallbackRaised ==
    \E k \in DOMAIN evals :
        /\ evals[k].pc = "done"
        /\ {p.metric : p \in Range(evals[k].sent)} = {"latency", "network"}

-----------------------------------------------------------------------------
(* C24: in every reachable state every stored workflow has at least one
   stored action and a non-empty event type, between the steps of a creation
   and after a creation that failed part-way too. *)
StoredWorkflowsHaveActions ==
    \A w \in workflows :
        /\ ~Falsy(w.event_type)
        /\ \E a \in workflow_actions : a.workflow_id = w.id

-----------------------------------------------------------------------------
(* Rules of any comparison being created, samples ingested once the
   evaluations of the earlier ones have ended, the alerts raised by the
   evaluations and by another client; no webhook URL set *)

NextAlerts ==
    \/ \E req \in DirectedRuleRequests : CreateRule(req)
    \/ \E req \in DirectedIngestRequests : Evaluated /\ Ingest(req)
    \/ \E k \in DOMAIN evals : EvalRead(k)
    \/ \E k \in DOMAIN evals : EvalPost(k)
    \/ \E k \in DOMAIN evals : EvalPostFails(k)
    \/ \E k \in DOMAIN evals : EvalResume(k)
    \/ \E req \in UnbreachedIntents : RaiseBegin(req)
    \/ RaiseInsert

SpecAlerts == InitQuiet /\ [][NextAlerts]_vars

(* C25: in every reachable state every stored rule has a non-empty metric
   name and a comparison that is gt or lt. *)
StoredRulesAreDirected ==
    \A r \in alert_rules :
        /\ ~Falsy(r.metric)
        /\ r.comparison \in {"gt", "lt"}

(* alert row a records a value strictly beyond the threshold under the
   comparison of the stored rule it names *)
RecordsBreach(a) ==
    \E r \in alert_rules :
        /\ r.id = a.rule_id
        /\ \/ r.comparison = "gt" /\ a.value.n > a.threshold.n
           \/ r.comparison = "lt" /\ a.value.n < a.threshold.n

(* C26: in every reachable state every persisted alert records a breach that
   occurred: its value is strictly beyond its threshold under the comparison
   of its originating rule.  (An alert without a rule id has no comparison to
   be judged by and is not judged.) *)
EveryAlertRecordsBreach ==
    \A i \in DOMAIN alerts : alerts[i].rule_id # 0 => RecordsBreach(alerts[i])

(* C26 amended: every alert persisted from an intent of the evaluator records
   a breach that occurred: the row names a stored rule, holds that rule's
   metric and threshold and the value of the evaluated sample for that
   metric, and the value is strictly beyond the threshold under the rule's
   comparison; stored rules never change.  (An intent posted to raise by
   another client is stored unchecked.) *)
EvaluatorAlertsRecordBreach ==
    /\ [][(Len(alerts') = Len(alerts) + 1 /\ ra.caller # 0) =>
            LET a == alerts'[Len(alerts')]
                t == evals[ra.caller]
            IN  /\ RecordsBreach(a)
                /\ \E r \in alert_rules :
                      /\ r.id = a.rule_id
                      /\ a.metric = r.metric
                      /\ a.threshold = r.threshold
                      /\ a.value = t.metrics[r.metric]
                      /\ a.device_id = t.deviceId]_vars
    /\ [][alert_rules \subseteq alert_rules']_vars

(* the evaluator's alert for a breached rule is stored next to an alert of
   another client that names the same rule and records no breach *)
BreachStoredNextToUnbreached ==
    /\ Len(alerts) = 2
    /\ ra.pc = "done" /\ ra.caller # 0 /\ ra.row = 2
    /\ RecordsBreach(alerts[2])
    /\ ~RecordsBreach(alerts[1])
    /\ alerts[1].rule_id = alerts[2].rule_id

-----------------------------------------------------------------------------
(* Every operation of the three services, called by a client that sends one
   request at a time, once the evaluation of an ingested sample has ended.
   Every query of a creation and every post of an evaluation goes through; the
   alerts raised are those of the evaluations; no webhook URL set *)

Settled == Quiet /\ Evaluated /\ ra.caller = 0

NextStore ==
    \/ Settled /\ CreateRule(RuleRequest("cpu", "gt", Num(85), NULL, NULL))
    \/ Settled /\ Ingest(GoodSample)
    \/ \E k \in DOMAIN evals : EvalRead(k)
    \/ \E k \in DOMAIN evals : EvalPost(k)
    \/ \E k \in DOMAIN evals : EvalResume(k)
    \/ RaiseInsert
    \/ Settled /\ CreateBegin("c1", GoodWorkflowRequest)
    \/ CreateInsertWorkflow("c1")
    \/ CreateInsertAction("c1")
    \/ CreateTestStep("c1")
    \/ Settled /\ SubmitBegin(Event("disk_full", "d1"))
    \/ SubmitSelect
    \/ SubmitExecStep
    \/ Settled /\ TestBegin([workflow_id |-> 1, test_event |-> MissingEvent])
    \/ TestExecStep
    \/ Evaluated /\ ra.caller = 0 /\ Collect

SpecStore == InitQuiet /\ [][NextStore]_vars

(* C27: alerts and workflow_logs are append-only: after any sequence of
   ingest, raise, rule creation, workflow creation, submit and test, every
   row stored earlier is still there, in its place and unchanged, and the row
   counts have not decreased. *)
AlertsAndLogsAppendOnly ==
    [][/\ IsPrefix(alerts, alerts')
       /\ IsPrefix(workflow_logs, workflow_logs')
       /\ Len(alerts') >= Len(alerts)
       /\ Len(workflow_logs') >= Len(workflow_logs)]_vars

(* two alerts are stored, and the executions of two workflows are logged *)
TwoAlertsTwoLogs ==
    /\ Len(alerts) = 2
    /\ Len(workflow_logs) = 2
    /\ workflow_logs[1].workflow_id # workflow_logs[2].workflow_id

(* C28: rows of alerts are created by raise only, rows of workflow_logs by
   the non-test execution of a workflow only; no step of submit or of test
   changes workflows or workflow_actions; no step of raise or of an evaluation
   changes alert_rules. *)
OperationsWriteOwnTablesOnly ==
    [][/\ alerts' # alerts =>
             /\ ra.pc = "insert" /\ ra'.row = Len(alerts')
             /\ alerts' = Append(alerts, AlertRow(ra.req))
       /\ workflow_logs' # workflow_logs =>
             /\ sb.pc = "exec" /\ sb.ex.pc = "log" /\ ~sb.ex.testMode
             /\ ts' = ts /\ cw' = cw
             /\ workflow_logs' =
                   Append(workflow_logs, LogRow(sb.ex.workflowId, sb.event, sb.ex.results))
       /\ (sb' # sb \/ ts' # ts) =>
             (workflows' = workflows /\ workflow_actions' = workflow_actions)
       /\ (ra' # ra \/ evals' # evals) => alert_rules' = alert_rules]_vars

(* a rule, an alert raised by an evaluation and a log row of a submit are
   stored, and a test of the logged workflow has just returned its outcomes *)
TestedAfterAlertAndLog ==
    /\ alert_rules # {}
    /\ Len(alerts) >= 1
    /\ Len(workflow_logs) = 1
    /\ ts.pc = "done" /\ ts.status = 200 /\ Len(ts.result) >= 1
    /\ ts.workflowId = workflow_logs[1].workflow_id

-----------------------------------------------------------------------------
(* C29: when the insert of a sample fails, ingest answers the generic
   internal failure, no evaluation is started and no alert is raised for the
   sample, and the insert is not tried again: evaluations exist for persisted
   samples only, one for each row of metrics and of that row's sample, every
   alert comes from one of them, and a row enters metrics only in the step
   that answers its request 202. *)
FailedInsertStartsNoEvaluation ==
    /\ [] /\ ig.status = 500 => (ig.row = 0 /\ ig.task = 0)
          /\ Len(evals) = Len(metrics)
          /\ \A k \in DOMAIN evals :
                metrics[k] =
                    MetricsRow([device_id |-> evals[k].deviceId,
                                timestamp |-> metrics[k].timestamp,
                                metrics |-> evals[k].metrics])
          /\ \A i \in DOMAIN alerts :
                \E k \in DOMAIN evals : \E j \in DOMAIN evals[k].sent :
                    alerts[i] = AlertRow(evals[k].sent[j])
    /\ [][/\ (ig'.status = 500 /\ ig.status # 500) =>
                (metrics' = metrics /\ evals' = evals /\ alerts' = alerts)
          /\ metrics' # metrics =>
                /\ ig'.status = 202 /\ ig'.row = Len(metrics')
                /\ metrics' = Append(metrics, MetricsRow(ig'.req))]_vars

(* the insert of a sample that breaches a stored rule failed: 500 answered,
   nothing stored, nothing evaluated, nothing raised *)
BreachingSampleNotInserted ==
    /\ ig.status = 500
    /\ metrics = <<>> /\ evals = <<>> /\ alerts = <<>>
    /\ \E r \in alert_rules : Breach(r, ig.req.metrics[r.metric])

-----------------------------------------------------------------------------
(* an iteration of the loop of call ex gave results: the outcome of the next
   action, and of that one only, was added *)
OneMoreOutcome(ex, results) ==
    /\ Len(results) = Len(ex.results) + 1
    /\ IsPrefix(ex.results, results)
    /\ results[Len(results)].action = ex.actions[Len(results)].action_type

(* C30: within one execution the actions run one at a time, each after the
   one before it has returned its outcome, and no outcome makes the execution
   skip the remaining actions: an iteration adds the outcome of the next
   action only, a call in its loop has an action left to run, and a call
   leaves its loop only with an outcome for every action it read. *)
ActionsRunOneAtATime ==
    /\ [] \A ex \in {sb.ex} \cup {cw[c].ex : c \in Creators} :
            /\ ex.pc = "actions" => Len(ex.results) < Len(ex.actions)
            /\ ex.pc \in {"log", "returned"} => Len(ex.results) = Len(ex.actions)
    /\ [][/\ (sb.pc = "exec" /\ sb.ex.pc = "actions" /\ sb' # sb) =>
                /\ sb'.pc = "exec" /\ sb'.ex.workflowId = sb.ex.workflowId
                /\ sb'.ex.pc \in {"actions", "log"}
                /\ OneMoreOutcome(sb.ex, sb'.ex.results)
          /\ \A c \in Creators :
                (cw[c].pc = "test" /\ cw[c].ex.pc = "actions" /\ cw'[c] # cw[c]) =>
                    \/ /\ cw'[c].pc = "test" /\ cw'[c].ex.pc = "actions"
                       /\ OneMoreOutcome(cw[c].ex, cw'[c].ex.results)
                    \/ /\ cw'[c].pc = "done" /\ cw'[c].status = 201
                       /\ OneMoreOutcome(cw[c].ex, cw'[c].test_result)
                       /\ Len(cw'[c].test_result) = Len(cw[c].ex.actions)]_vars

(* a submit's execution is between its two actions: the first returned the
   outcome unknown, the second has not run *)
BetweenActionsAfterUnknown ==
    /\ sb.pc = "exec" /\ sb.ex.pc = "actions"
    /\ Len(sb.ex.actions) = 2
    /\ Len(sb.ex.results) = 1
    /\ sb.ex.results[1].status = "unknown"

-----------------------------------------------------------------------------
(* no goroutine of checkForPatches is running *)
ChecksEnded == \A c \in 1..MaxChecks : ~Running(checks[c])

(* approvals, the clock, the registration and the patch checks of the agent,
   a check starting when the one before has returned *)
NextPatch ==
    \/ \E req \in ApproveRequests : Approve(req)
    \/ Tick
    \/ Register
    \/ \E c \in 1..MaxChecks : ChecksEnded /\ PatchTick(c)
    \/ \E c \in 1..MaxChecks : CheckFetch(c)
    \/ \E c \in 1..MaxChecks : CheckReportInProgress(c)
    \/ \E c \in 1..MaxChecks : CheckInstall(c)
    \/ \E c \in 1..MaxChecks : CheckReportSuccess(c)

SpecPatch == InitQuiet /\ [][NextPatch]_vars

(* the same with the checks of the agent overlapping *)
NextAgent ==
    \/ \E req \in ApproveRequests : Approve(req)
    \/ Tick
    \/ Register
    \/ \E c \in 1..MaxChecks : PatchTick(c)
    \/ \E c \in 1..MaxChecks : CheckFetch(c)
    \/ \E c \in 1..MaxChecks : CheckReportInProgress(c)
    \/ \E c \in 1..MaxChecks : CheckInstall(c)
    \/ \E c \in 1..MaxChecks : CheckReportSuccess(c)

SpecAgent == InitQuiet /\ [][NextAgent]_vars

(* the assignment a running check is at *)
CurrentPatch(check) == check.got[check.i]

(* the reports of a check so far are, for its assignments in turn,
   in_progress and then success *)
ReportsInOrder(check) ==
    /\ \A k \in 1..Len(check.reports) :
          /\ check.reports[k].patch = check.got[(k + 1) \div 2]
          /\ check.reports[k].status =
                IF k % 2 = 1 THEN "in_progress" ELSE "success"
    /\ Running(check) /\ check.pc # "fetch" =>
          Len(check.reports) =
              2 * (check.i - 1) + (IF check.pc = "report_in_progress" THEN 0 ELSE 1)

(* the step of check c that receives the answer of the fetch *)
Fetched(c) ==
    /\ checks[c].pc = "fetch"
    /\ checks'[c].pc \in {"report_in_progress", "done"}

(* the step of check c in which the service applies its success report, the
   in_progress report of the same assignment having been applied *)
BothReportsApplied(c) ==
    /\ checks[c].pc = "report_success"
    /\ checks'[c] # checks[c]
    /\ checks[c].reports[Len(checks[c].reports)].applied
    /\ patch_assignments' # patch_assignments

(* C31: the fetch returns only assignments that are approved and whose
   schedule is null or not in the future; a check reports, for each
   assignment it got in turn, in_progress and then success; and when the
   success report is applied after the in_progress report, the assignment
   has status success, installed_at set, and the fetch does not return it *)
FetchedReportedInstalled ==
    /\ [](\A c \in 1..MaxChecks : ReportsInOrder(checks[c]))
    /\ [][\A c \in 1..MaxChecks :
            /\ Fetched(c) =>
                  \A k \in DOMAIN checks'[c].got :
                      /\ patch_assignments[checks'[c].got[k]].status = "approved"
                      /\ Due(patch_assignments[checks'[c].got[k]])
            /\ BothReportsApplied(c) =>
                  LET p == CurrentPatch(checks[c]) IN
                  /\ patch_assignments'[p].status = "success"
                  /\ patch_assignments'[p].installed_at # NullValue
                  /\ p \notin FetchAssignments(AgentDevice)']_vars

(* the first of two assignments of a check has been reported in_progress and
   success, both reports were applied, and its row is installed *)
FirstOfTwoInstalled ==
    \E c \in 1..MaxChecks :
        /\ checks[c].pc = "report_in_progress"
        /\ checks[c].i = 2
        /\ \A k \in 1..2 : checks[c].reports[k].applied
        /\ patch_assignments[checks[c].got[1]].status = "success"
        /\ patch_assignments[checks[c].got[1]].installed_at # NullValue
        /\ checks[c].got[1] \notin FetchAssignments(AgentDevice)

(* C37: the agent installs an assignment at most once per approval: no
   installation is carried out again with no approval of the row in between *)
NeverInstalledAgain == \A e \in installs : ~e.again

-----------------------------------------------------------------------------
(* C32: no workflow_logs row holds an outcome list shorter than the action
   list its workflow was created with, whatever way a submit interleaves
   with the creation of the workflow *)
LoggedOutcomesComplete ==
    \A i \in DOMAIN workflow_logs :
        Len(workflow_logs[i].result) =
            Len(DefinedActions(workflow_logs[i].workflow_id))

-----------------------------------------------------------------------------
(* the rows the ended submit appended to workflow_logs: the last rows of the
   table, one per execution that returned, in the order of the executions *)
RowsOfSubmit ==
    /\ Len(sb.results) <= Len(workflow_logs)
    /\ \A i \in DOMAIN sb.results :
          /\ sb.results[i].row = Len(workflow_logs) - Len(sb.results) + i
          /\ workflow_logs[sb.results[i].row] =
                LogRow(sb.results[i].workflow_id, sb.event, sb.results[i].result)

(* C33 as stated: a submit answered internal_error appended no workflow_logs
   row for its event, and a submit answered success appended one row for
   every matching workflow *)
SubmitAllOrNothing ==
    /\ (sb.pc = "done" /\ sb.status = 500) =>
          \A i \in DOMAIN sb.results : sb.results[i].row = 0
    /\ (sb.pc = "done" /\ sb.status = 202) =>
          /\ RowsOfSubmit
          /\ {sb.results[i].workflow_id : i \in DOMAIN sb.results} = MatchingWorkflows

(* C33: a submit answered internal_error appended one workflow_logs row for
   every workflow whose execution returned before the failure, and none for
   the execution that failed or for the workflows after it; a submit
   answered success appended one row for every matching workflow *)
SubmitLogsReturnedExecutions ==
    /\ (sb.pc = "done" /\ sb.status = 500) =>
          /\ RowsOfSubmit
          /\ {sb.results[i].workflow_id : i \in DOMAIN sb.results}
                \subseteq MatchingWorkflows
    /\ (sb.pc = "done" /\ sb.status = 202) =>
          /\ RowsOfSubmit
          /\ {sb.results[i].workflow_id : i \in DOMAIN sb.results} = MatchingWorkflows
          /\ Cardinality(MatchingWorkflows) = Len(sb.results)

(* a submit answered internal_error after the execution of the first of two
   matching workflows had been logged *)
FailedAfterFirstLogged ==
    /\ sb.pc = "done"
    /\ sb.status = 500
    /\ Len(sb.results) = 1
    /\ Cardinality(MatchingWorkflows) = 2
    /\ workflow_logs # <<>>
    /\ workflow_logs[Len(workflow_logs)].workflow_id = sb.results[1].workflow_id

-----------------------------------------------------------------------------
(* the step of a test call that ends the SELECT of the actions, the call's
   workflow id being that of no stored workflow *)
UnknownIdSelected ==
    /\ ts.pc = "exec"
    /\ ts.ex.pc = "select"
    /\ ts' # ts
    /\ ts.ex.workflowId \notin {w.id : w \in workflows}

(* C34: a test call whose workflow id matches no stored workflow ends when
   its SELECT does: the execution returns no outcome without running an
   action, the answer is 200 with an empty list (500 only when the SELECT
   itself threw), and no workflow_logs row is written *)
UnknownIdTestsEmpty ==
    [][UnknownIdSelected =>
          /\ ExecStep(ts.ex, TRUE).pc = "returned"
          /\ ExecStep(ts.ex, TRUE).results = <<>>
          /\ ts'.pc = "done"
          /\ \/ ts'.status = 200 /\ ts'.result = <<>>
             \/ ts'.status = 500 /\ ExecStep(ts.ex, FALSE).pc = "threw"
          /\ workflow_logs' = workflow_logs]_vars

(* the test of an id of no stored workflow was answered 200 with an empty
   list while another workflow was stored with its actions *)
UnknownIdAnswered ==
    /\ ts.pc = "done"
    /\ ts.status = 200
    /\ ts.result = <<>>
    /\ ts.workflowId \notin {w.id : w \in workflows}
    /\ workflows # {}
    /\ workflow_actions # {}
    /\ workflow_logs = <<>>

-----------------------------------------------------------------------------
(* the place in the snapshot of task t of the rule that payload names *)
PlaceInSnapshot(t, payload) ==
    CHOOSE p \in 0..Len(t.rules) :
        IF \E q \in DOMAIN t.rules : t.rules[q].id = payload.rule_id
        THEN p > 0 /\ t.rules[p].id = payload.rule_id
        ELSE p = 0

(* the evaluations that gave sendAlert a payload of rule id *)
EvaluationsRaising(id) ==
    {k \in DOMAIN evals : \E j \in DOMAIN evals[k].sent : evals[k].sent[j].rule_id = id}

(* C35: an evaluation reads the rule set once: the rules it read are the
   rule set of that moment and stay its rules whatever is created later; it
   goes through them forward, so the payloads it sends name rules of the
   snapshot at places that increase, up to the place it is at; and the alerts
   stored for a rule are no more than the evaluations that raised it *)
EvaluationUsesOneSnapshot ==
    /\ [](\A k \in DOMAIN evals :
            LET t == evals[k] IN
            /\ \A j \in DOMAIN t.sent :
                  /\ PlaceInSnapshot(t, t.sent[j]) \in 1..t.i
                  /\ \A h \in 1..(j - 1) :
                        PlaceInSnapshot(t, t.sent[h]) < PlaceInSnapshot(t, t.sent[j])
            /\ \A p, q \in DOMAIN t.rules : t.rules[p].id = t.rules[q].id => p = q)
    /\ [](\A r \in alert_rules :
            Cardinality({a \in DOMAIN alerts : alerts[a].rule_id = r.id})
                <= Cardinality(EvaluationsRaising(r.id)))
    /\ [][\A k \in DOMAIN evals :
            /\ (evals[k].pc = "read" /\ evals'[k].pc \notin {"read", "failed"}) =>
                  Range(evals'[k].rules) = SelectRules
            /\ evals[k].pc # "read" =>
                  /\ evals'[k].rules = evals[k].rules
                  /\ evals'[k].i >= evals[k].i]_vars

(* an evaluation is sending the alert of the one rule it read while a rule
   created since is stored *)
RuleCreatedDuringEvaluation ==
    \E k \in DOMAIN evals :
        /\ evals[k].pc \in {"post", "await"}
        /\ Len(evals[k].rules) = 1
        /\ Cardinality(alert_rules) = 2

-----------------------------------------------------------------------------
(* the step in which sendAlert of evaluation k ends without the alert
   delivered: the post threw, or the alert service answered an error *)
DeliveryFailed(k) ==
    \/ evals[k].pc = "post" /\ evals'[k].pc # "post" /\ evals'[k].pc # "await"
    \/ /\ evals[k].pc = "await" /\ evals'[k].pc # "await"
       /\ ra.status \notin {200, 201, 202}

(* rule p of the snapshot of task t is breached by its sample *)
BreachedAt(t, p) ==
    LET value == Lookup(t.metrics, t.rules[p].metric)
    IN  ~Skipped(value) /\ Breach(t.rules[p], value)

(* C36: when the alert of a breached rule is not delivered, the evaluation
   goes on with the rules after it: it passes the rules that are not
   breached and gives sendAlert the payload of the next breached rule, or
   ends as done when no later rule is breached; it never ends as failed *)
FailedDeliveryGoesOn ==
    [][\A k \in DOMAIN evals :
         DeliveryFailed(k) =>
            LET t == evals[k]
                u == evals'[k]
            IN  /\ u.pc \in {"post", "done"}
                /\ u.rules = t.rules
                /\ u.i > t.i
                /\ \A p \in (t.i + 1)..(u.i - 1) :
                      p <= Len(t.rules) => ~BreachedAt(t, p)
                /\ u.pc = "post" =>
                      /\ BreachedAt(t, u.i)
                      /\ u.sent = Append(t.sent, AlertPayload(t.deviceId, t.rules[u.i],
                                             Lookup(t.metrics, t.rules[u.i].metric)))
                /\ u.pc = "done" => u.i = Len(t.rules) + 1 /\ u.sent = t.sent]_vars

(* an evaluation has ended after two payloads: the alert of the first was
   not stored, the alert of the second was *)
LaterAlertStoredAfterFailure ==
    \E k \in DOMAIN evals :
        /\ evals[k].pc = "done"
        /\ Len(evals[k].sent) = 2
        /\ Len(alerts) = 1
        /\ alerts[1].rule_id = evals[k].sent[2].rule_id

====
